---- MODULE Spec2Model ----
(***************************************************************************)
(* Model of the structured-output pipeline of process_structured_output:   *)
(* the per-provider retry helpers, the response parsing of every provider, *)
(* process_country (cli_country.py), the continent CLI (cli.py) and the    *)
(* upsert operations of db/operations.py on the four tables.               *)
(*                                                                         *)
(* A vendor response is abstracted to its kind (what the parsing code      *)
(* distinguishes) and, for a JSON object, to the population field, which   *)
(* stands for the schema-constrained fields (Field(gt=0)).  Timestamps     *)
(* (created_at / updated_at) are not modelled.  Delays are in seconds.     *)
(***************************************************************************)
EXTENDS Integers, Sequences, FiniteSets, TLC

\* ------------------------------------------------------------------ bounds
\* CLI invocations (process_country / continent CLI)
MaxRuns == 2

\* cities listed in one vendor response
MaxCities == 2

\* cities listed in one vendor response that ignores "up to 5"
MaxListed == 6

\* rows per table of the backend's database
MaxRows == 2

\* largest min_val, max_val and median_val given to get_color_for_value
MaxVal == 3

\* longest airport_code a vendor response carries
MaxCodeLen == 4

\* longest string value of a JSON document given to _sanitize_json
MaxText == 3

\* ------------------------------------------------------- program constants
MAX_RETRIES_Four == 3 + 1

MAX_RETRIES == 3
RETRY_DELAY == 1
RATE_LIMIT_DELAY == 10
MAX_CITIES_RESPONSE == 5

None == "None"

\* SQL NULL / Python None where the code holds a row id
NullId == 0

Providers ==
    {"ai21", "anthropic", "cohere", "deepseek", "google", "groq", "mistral", "openai"}

ContinentProviders == {"openai", "google"}

\* model_provider / model_name each provider class hard-codes
HardcodedIdentity(p) ==
    CASE p = "ai21"     -> [model_provider |-> "AI21", model_name |-> "jamba-mini"]
      [] p = "cohere"   -> [model_provider |-> "Cohere", model_name |-> "command-r-plus-08-2024"]
      [] p = "deepseek" -> [model_provider |-> "DeepSeek", model_name |-> "deepseek-chat"]
      [] p = "google"   -> [model_provider |-> "Google", model_name |-> "gemini-2.5-flash"]
      [] p = "groq"     -> [model_provider |-> "Groq", model_name |-> "meta-llama/llama-4-scout-17b-16e-instruct"]
      [] p = "mistral"  -> [model_provider |-> "Mistral", model_name |-> "mistral-large-latest"]
      [] p = "openai"   -> [model_provider |-> "OpenAI", model_name |-> "gpt-4o"]

\* what Claude may answer to "Who is answering this question?"
AnthropicAnswers ==
    { [model_provider |-> "Anthropic", model_name |-> "claude-haiku-4-5"],
      [model_provider |-> "Anthropic", model_name |-> "Claude" ] }

\* ------------------------------------------------------------- inputs
CountryNames == {"Nigeria", "Atlantis"}
ContinentArgs == {"Africa", "africa", "Mu"}
CityNames == {"Lagos", "Abuja"}
PopValues == {0, 1}

\* countries.csv as country_info_map: lower-cased country -> assignment
country_info_map ==
    [c \in {"Nigeria", "Algeria", "Belgium", "Germany"} |->
        CASE c = "Nigeria" -> [country |-> c, continent |-> "Africa", llm |-> "ai21"]
          [] c = "Algeria" -> [country |-> c, continent |-> "Africa", llm |-> "mistral"]
          [] c = "Belgium" -> [country |-> c, continent |-> "Europe", llm |-> "mistral"]
          [] c = "Germany" -> [country |-> c, continent |-> "Europe", llm |-> "cohere"]]

VALID_CONTINENTS ==
    {"Africa", "Antarctica", "Asia", "Europe", "North America", "Oceania", "South America"}

CityPayloads == [name : CityNames, population : PopValues]

CityLists == UNION { [1..n -> CityPayloads] : n \in 0..MaxCities }

NoPayload == [population |-> 0, cities |-> <<>>]

\* vendor responses to the country question, by what the parsing code sees
TextCountryKinds ==
    {"api_error", "rate_limit", "empty", "not_json", "json_scalar", "json_array"}

AnthropicKinds == {"api_error", "rate_limit", "no_content", "text_only", "other_tool"}

CountryKinds(p) ==
    (IF p = "anthropic" THEN AnthropicKinds ELSE TextCountryKinds) \cup {"object"}

CountryResponses(p) ==
    { [kind |-> k, population |-> 0, cities |-> <<>>] :
          k \in CountryKinds(p) \ {"object"} }
    \cup { [kind |-> "object", population |-> n, cities |-> <<>>] : n \in PopValues }

TextCitiesKinds ==
    {"api_error", "rate_limit", "empty", "not_json", "json_scalar",
     "array_scalars", "object_no_cities", "cities_not_list"}

AnthropicCitiesKinds ==
    AnthropicKinds \cup {"object_no_cities", "cities_not_list"}

CitiesKinds(p) ==
    IF p = "anthropic" THEN AnthropicCitiesKinds \cup {"object_cities"}
    ELSE TextCitiesKinds \cup {"object_cities", "array_cities"}

CitiesResponses(p) ==
    { [kind |-> k, population |-> 0, cities |-> <<>>] :
          k \in CitiesKinds(p) \ {"object_cities", "array_cities"} }
    \cup { [kind |-> "object_cities", population |-> 0, cities |-> cs] : cs \in CityLists }
    \cup IF p = "anthropic" THEN {}
         ELSE { [kind |-> "array_cities", population |-> 0, cities |-> cs] : cs \in CityLists }

ContinentResponses ==
    { [kind |-> k, population |-> 0, cities |-> <<>>] :
          k \in {"api_error", "not_json", "json_array"} }
    \cup { [kind |-> "object", population |-> n, cities |-> <<>>] : n \in PopValues }

DbErrors == {"none", "connect", "execute", "commit"}

\* ------------------------------------------------------- pydantic models
\* CountryInfo / ContinentInfo: population Field(gt=0) stands for the schema
CountryInfoAcceptsAll(population) == TRUE

CountryInfoValidates(population) == population > 0

CityInfoValidates(city) == city.population > 0

CitiesResponseValidates(cities) ==
    /\ Len(cities) <= MAX_CITIES_RESPONSE
    /\ \A i \in 1..Len(cities) : CityInfoValidates(cities[i])

AllCitiesValidate(cities) == \A i \in 1..Len(cities) : CityInfoValidates(cities[i])

\* ------------------------------------------------ response parsing
\* Exception type an SDK call raises instead of returning a response
SdkException(resp) ==
    CASE resp.kind = "api_error"  -> "APIError"
      [] resp.kind = "rate_limit" -> "RateLimitError"
      [] OTHER                    -> "none"

\* "429" in str(e) or "rate" in str(e).lower()
IsRateLimit(exc) == exc = "RateLimitError"

JsonModeProviders == {"openai", "groq", "mistral"}
SanitizingProviders == {"cohere", "ai21", "deepseek"}

\* get_country_info: the exception it raises, "none" when it returns.
\* json_scalar / json_array stand for a non-empty value such as 5 / [1, 2].
GetCountryInfoAnthropic(resp) ==
    CASE resp.kind \in {"no_content", "other_tool"} -> "ValueError"
      [] resp.kind = "text_only" -> "AttributeError"
      [] resp.kind = "object" ->
            IF CountryInfoValidates(resp.population) THEN "none" ELSE "ValueError"

GetCountryInfoJson(p, resp) ==
    CASE resp.kind \in {"empty", "not_json"} -> "ValueError"
      [] resp.kind = "json_scalar" -> IF p = "groq" THEN "AttributeError" ELSE "TypeError"
      [] resp.kind = "json_array" -> "TypeError"
      [] resp.kind = "object" ->
            IF CountryInfoValidates(resp.population) THEN "none" ELSE "ValueError"

GetCountryInfo(p, resp) ==
    IF SdkException(resp) # "none" THEN SdkException(resp)
    ELSE IF p = "anthropic" THEN GetCountryInfoAnthropic(resp)
    ELSE GetCountryInfoJson(p, resp)

\* get_cities_info: [exc, cities]
Raises(exc) == [exc |-> exc, cities |-> <<>>]
Returns(cities) == [exc |-> "none", cities |-> cities]

GetCitiesInfoAnthropic(resp) ==
    CASE resp.kind \in {"no_content", "other_tool"} -> Raises("ValueError")
      [] resp.kind = "text_only" -> Raises("AttributeError")
      [] resp.kind = "object_no_cities" -> Returns(<<>>)
      [] resp.kind = "cities_not_list" -> Raises("TypeError")
      [] resp.kind = "object_cities" ->
            IF AllCitiesValidate(resp.cities) THEN Returns(resp.cities)
            ELSE Raises("ValueError")

\* OpenAI, Groq, Mistral: CitiesResponse(**data)
GetCitiesInfoJsonMode(resp) ==
    CASE resp.kind \in {"empty", "not_json", "object_no_cities"} -> Raises("ValueError")
      [] resp.kind \in {"json_scalar", "array_scalars", "array_cities", "cities_not_list"} ->
            Raises("TypeError")
      [] resp.kind = "object_cities" ->
            IF CitiesResponseValidates(resp.cities) THEN Returns(resp.cities)
            ELSE Raises("ValueError")

\* Cohere, AI21, DeepSeek: _try_extract_json, _sanitize_json, json.loads
GetCitiesInfoSanitizing(resp) ==
    CASE resp.kind = "empty" -> Returns(<<>>)
      [] resp.kind \in {"not_json", "json_scalar", "object_no_cities"} -> Raises("ValueError")
      [] resp.kind \in {"array_scalars", "cities_not_list"} -> Raises("TypeError")
      [] resp.kind = "array_cities" ->
            IF resp.cities = <<>> THEN Returns(<<>>) ELSE Raises("ValueError")
      [] resp.kind = "object_cities" ->
            IF AllCitiesValidate(resp.cities) THEN Returns(resp.cities)
            ELSE Raises("ValueError")

GetCitiesInfoGoogle(resp) ==
    CASE resp.kind = "empty" -> Returns(<<>>)
      [] resp.kind \in {"not_json", "json_scalar", "object_no_cities"} -> Raises("ValueError")
      [] resp.kind \in {"array_scalars", "cities_not_list"} -> Raises("TypeError")
      [] resp.kind \in {"array_cities", "object_cities"} ->
            IF AllCitiesValidate(resp.cities) THEN Returns(resp.cities)
            ELSE Raises("ValueError")

GetCitiesInfo(p, resp) ==
    IF SdkException(resp) # "none" THEN Raises(SdkException(resp))
    ELSE IF p = "anthropic" THEN GetCitiesInfoAnthropic(resp)
    ELSE IF p \in JsonModeProviders THEN GetCitiesInfoJsonMode(resp)
    ELSE IF p \in SanitizingProviders THEN GetCitiesInfoSanitizing(resp)
    ELSE GetCitiesInfoGoogle(resp)

\* get_continent_info (OpenAI, Google)
GetContinentInfo(p, resp) ==
    CASE resp.kind = "api_error" -> "APIError"
      [] resp.kind = "not_json" -> "ValueError"
      [] resp.kind = "json_array" -> IF p = "google" THEN "ValueError" ELSE "TypeError"
      [] resp.kind = "object" ->
            IF CountryInfoValidates(resp.population) THEN "none" ELSE "ValueError"

\* ------------------------------------------------------ retry helpers
CatchesValueErrorOnly(p, exc) == exc = "ValueError"

\* the except clauses of get_*_with_retry
Catches(p, exc) ==
    IF p \in {"anthropic", "ai21", "google"} THEN exc = "ValueError" ELSE TRUE

ShouldSleepAfterEveryFailure(attempt) == attempt < MAX_RETRIES

\* attempt < MAX_RETRIES - 1
ShouldSleep(attempt) == attempt < MAX_RETRIES - 1

SleepDelayRateLimitEverywhere(p, exc) ==
    IF IsRateLimit(exc) THEN RATE_LIMIT_DELAY ELSE RETRY_DELAY

\* argument of time.sleep after a caught exception
SleepDelay(p, exc) ==
    IF p \in {"cohere", "deepseek"} /\ exc # "ValueError" /\ IsRateLimit(exc)
    THEN RATE_LIMIT_DELAY
    ELSE RETRY_DELAY

\* --------------------------------------------------------- database
Max(S) == CHOOSE x \in S : \A y \in S : y <= x

NextId(ids) == IF ids = {} THEN 1 ELSE Max(ids) + 1

\* INSERT INTO ai_models ... ON CONFLICT (model_provider, model_name) DO UPDATE
AiModelKey(r) == <<r.model_provider, r.model_name>>

InsertAiModel(rows, ident) ==
    IF \E r \in rows : AiModelKey(r) = AiModelKey(ident)
    THEN rows
    ELSE rows \cup { [ai_model_id |-> NextId({r.ai_model_id : r \in rows}),
                      model_provider |-> ident.model_provider,
                      model_name |-> ident.model_name] }

ReturningAiModelId(rows, ident) ==
    (CHOOSE r \in rows : AiModelKey(r) = AiModelKey(ident)).ai_model_id

\* INSERT INTO continents ... ON CONFLICT (name) DO UPDATE
InsertContinent(rows, name, info, ai_model_id) ==
    IF \E r \in rows : r.name = name
    THEN { IF r.name = name
           THEN [r EXCEPT !.population = info.population, !.ai_model_id = ai_model_id]
           ELSE r : r \in rows }
    ELSE rows \cup { [continent_id |-> NextId({r.continent_id : r \in rows}),
                      name |-> name,
                      population |-> info.population,
                      ai_model_id |-> ai_model_id] }

ReturningContinentId(rows, name) ==
    (CHOOSE r \in rows : r.name = name).continent_id

\* SELECT continent_id FROM continents WHERE name = %s
SelectContinentId(rows, name) ==
    IF \E r \in rows : r.name = name
    THEN (CHOOSE r \in rows : r.name = name).continent_id
    ELSE NullId

InsertCountryKeepsModel(rows, name, info, ai_model_id, continent_id) ==
    IF \E r \in rows : r.name = name
    THEN { IF r.name = name
           THEN [r EXCEPT !.continent_id = continent_id,
                          !.population = info.population]
           ELSE r : r \in rows }
    ELSE rows \cup { [country_id |-> NextId({r.country_id : r \in rows}),
                      name |-> name,
                      ai_model_id |-> ai_model_id,
                      continent_id |-> continent_id,
                      population |-> info.population] }

\* INSERT INTO countries ... ON CONFLICT (name) DO UPDATE
InsertCountry(rows, name, info, ai_model_id, continent_id) ==
    IF \E r \in rows : r.name = name
    THEN { IF r.name = name
           THEN [r EXCEPT !.ai_model_id = ai_model_id,
                          !.continent_id = continent_id,
                          !.population = info.population]
           ELSE r : r \in rows }
    ELSE rows \cup { [country_id |-> NextId({r.country_id : r \in rows}),
                      name |-> name,
                      ai_model_id |-> ai_model_id,
                      continent_id |-> continent_id,
                      population |-> info.population] }

ReturningCountryIdOffByOne(rows, name) ==
    (CHOOSE r \in rows : r.name = name).country_id + 1

\* RETURNING country_id
ReturningCountryId(rows, name) ==
    (CHOOSE r \in rows : r.name = name).country_id

\* INSERT INTO cities ... ON CONFLICT (country_id, name) DO UPDATE
CityKey(r) == <<r.country_id, r.name>>

InsertCityNoConflict(rows, city, country_id) ==
    rows \cup { [city_id |-> NextId({r.city_id : r \in rows}),
                 country_id |-> country_id,
                 name |-> city.name,
                 population |-> city.population] }

InsertCity(rows, city, country_id) ==
    IF \E r \in rows : CityKey(r) = <<country_id, city.name>>
    THEN { IF CityKey(r) = <<country_id, city.name>>
           THEN [r EXCEPT !.population = city.population]
           ELSE r : r \in rows }
    ELSE rows \cup { [city_id |-> NextId({r.city_id : r \in rows}),
                      country_id |-> country_id,
                      name |-> city.name,
                      population |-> city.population] }

ReturningCityId(rows, city, country_id) ==
    (CHOOSE r \in rows : CityKey(r) = <<country_id, city.name>>).city_id

CommitLost(stored, tx) == stored

\* conn.commit(): the transaction's rows become the stored rows
Commit(stored, tx) == tx

RollbackKeepsWork(stored, tx) == tx

\* conn.rollback(): the stored rows stay as they were
Rollback(stored, tx) == stored

\* one upsert transaction: cursor.execute, conn.commit, except -> rollback.
\* tx is the table as the statement leaves it inside the transaction.
Transaction(stored, tx, err) ==
    CASE err = "none"    -> Commit(stored, tx)
      [] err = "connect" -> stored
      [] err = "execute" -> Rollback(stored, stored)
      [] err = "commit"  -> Rollback(stored, tx)

\* ------------------------------------------------------------- backend data
\* Names are sequences of characters, so that letter case and LIKE patterns
\* are computed. The stored names: "Mali", "mali", "Male".
StoredNames ==
    {<<"M", "a", "l", "i">>, <<"m", "a", "l", "i">>, <<"M", "a", "l", "e">>}

\* the names a request carries in its path: the stored ones, "MALI", "Oslo",
\* and the LIKE patterns "Mal_" and "%"
RequestNames ==
    StoredNames \cup {<<"M", "A", "L", "I">>, <<"O", "s", "l", "o">>,
                      <<"M", "a", "l", "_">>, <<"%">>}

\* the ids a request carries in its path
RequestIds == 0 .. MaxRows + 1

LowerChar(c) ==
    CASE c = "M" -> "m"
      [] c = "A" -> "a"
      [] c = "L" -> "l"
      [] c = "I" -> "i"
      [] c = "O" -> "o"
      [] OTHER -> c

LowerName(s) == [i \in 1 .. Len(s) |-> LowerChar(s[i])]

RECURSIVE Like(_, _)
\* SQL LIKE: % matches any run of characters, _ matches one character
Like(s, pattern) ==
    IF pattern = <<>> THEN s = <<>>
    ELSE IF Head(pattern) = "%"
         THEN Like(s, Tail(pattern)) \/ (s # <<>> /\ Like(Tail(s), pattern))
    ELSE /\ s # <<>>
         /\ (Head(pattern) = "_" \/ Head(pattern) = Head(s))
         /\ Like(Tail(s), Tail(pattern))

\* column.ilike(name): LIKE on the lower-cased column and pattern
ILike(s, pattern) == Like(LowerName(s), LowerName(pattern))

\* sequences of at most MaxRows names, no name twice (a unique name column)
UniqueNameSeqs ==
    {q \in UNION {[1 .. n -> StoredNames] : n \in 0 .. MaxRows} :
        \A i, j \in 1 .. Len(q) : q[i] = q[j] => i = j}

\* the continents table: identity key, unique name
ContinentTables ==
    {{[continent_id |-> i, continent_name |-> q[i]] : i \in 1 .. Len(q)} :
        q \in UniqueNameSeqs}

\* the glossary table: identity key, unique entry
GlossaryTables ==
    {{[glossary_id |-> i, entry |-> q[i]] : i \in 1 .. Len(q)} : q \in UniqueNameSeqs}

\* the ai_models table: identity key; one model per provider here
AIModelTables ==
    {{[ai_model_id |-> i, model_provider |-> q[i]] : i \in 1 .. Len(q)} :
        q \in UniqueNameSeqs}

\* the countries table: identity key, unique name, nullable references to
\* one of the n_continents continents and one of the n_models models
CountryTables(n_continents, n_models) ==
    UNION {{{[country_id |-> i, name |-> q[i],
              continent_id |-> c[i], ai_model_id |-> m[i]] : i \in 1 .. Len(q)} :
               c \in [1 .. Len(q) -> {NullId} \cup 1 .. n_continents],
               m \in [1 .. Len(q) -> {NullId} \cup 1 .. n_models]} :
           q \in UniqueNameSeqs}

\* the cities table: identity key, nullable country_id, unique
\* (country_id, name); NULL country_id never conflicts
CityTables(n_countries) ==
    {{[city_id |-> i, country_id |-> q[i][1], name |-> q[i][2]] : i \in 1 .. Len(q)} :
        q \in {r \in UNION {[1 .. n -> ({NullId} \cup 1 .. n_countries) \X StoredNames] :
                               n \in 0 .. MaxRows} :
                 \A i, j \in 1 .. Len(r) :
                     (r[i] = r[j] /\ r[i][1] # NullId) => i = j}}

EmptyTables ==
    [continents |-> {}, ai_models |-> {}, countries |-> {}, cities |-> {},
     glossary |-> {}]

\* The databases the backend is started on. Every endpoint reads one table
\* or one table joined with its parent, so each database fills one such pair.
StoredDatabases ==
    UNION {
        UNION {{[EmptyTables EXCEPT !.continents = t, !.countries = k] :
                   k \in CountryTables(Cardinality(t), 0)} : t \in ContinentTables},
        UNION {{[EmptyTables EXCEPT !.ai_models = t, !.countries = k] :
                   k \in CountryTables(0, Cardinality(t))} : t \in AIModelTables},
        UNION {{[EmptyTables EXCEPT !.countries = t, !.cities = k] :
                   k \in CityTables(Cardinality(t))} : t \in CountryTables(0, 0)},
        {[EmptyTables EXCEPT !.glossary = t] : t \in GlossaryTables}}

NoResponse ==
    [endpoint |-> None, status |-> 0, detail |-> None, items |-> {}, count |-> 0,
     id |-> 0, name |-> <<>>]

\* the backend is not running
NoApi == [tables |-> EmptyTables, response |-> NoResponse]

\* no helper function called
NoCall == [fn |-> None]

\* ------------------------------------------------------------- state
VARIABLES
    db,         \* the four tables: ai_models, continents, countries, cities
    pc,         \* position of the running CLI invocation
    run,        \* locals of process_country / of the continent CLI main
    retry,      \* locals of the get_*_with_retry call in progress
    raised,     \* exception type that ended the invocation, "none" otherwise
    db_error,   \* where the latest database call failed, "none" otherwise
    written,    \* <<table, id>> of the rows this invocation's upserts committed
    db0,        \* the tables when the invocation started
    runs,       \* invocations started so far
    main,       \* locals of the CLI entry point (cli_country / batch main)
    api,        \* the backend: the tables it reads, the latest request and response
    call        \* a helper function called on its own: arguments and result

vars == <<db, pc, run, retry, raised, db_error, written, db0, runs, main, api, call>>


NoIdentity == [model_provider |-> None, model_name |-> None]

NoInfo == [population |-> 0]

NoRun ==
    [cli |-> None, provider |-> None, country_name |-> None, skip_cities |-> FALSE,
     continent_name |-> None, model_identity |-> NoIdentity, ai_model_id |-> NullId,
     continent_id |-> NullId, info |-> NoInfo, country_id |-> NullId,
     cities |-> <<>>, city_ids |-> <<>>, calls |-> {}]

NoRetry ==
    [query |-> None, attempt |-> 0, outcomes |-> <<>>, sleeps |-> <<>>,
     status |-> "idle", raises |-> "none", last_resp |-> None]

\* entry of get_country_info_with_retry / get_cities_info_with_retry
NewRetry(query) == [NoRetry EXCEPT !.query = query, !.status = "running"]

EmptyDb == [ai_models |-> {}, continents |-> {}, countries |-> {}, cities |-> {}]

\* no CLI entry point running
NoMain ==
    [prog |-> None, pc |-> "idle", provider |-> None, dry_run |-> FALSE,
     skip_cities |-> FALSE, countries |-> <<>>, calls |-> <<>>, results |-> <<>>,
     success_count |-> 0, failure_count |-> 0, load |-> "none",
     outcome |-> "none", exit |-> 0, escaped |-> "none"]

Init ==
    /\ db = EmptyDb
    /\ pc = "idle"
    /\ run = NoRun
    /\ retry = NoRetry
    /\ raised = "none"
    /\ db_error = "none"
    /\ written = {}
    /\ db0 = EmptyDb
    /\ runs = 0
    /\ main = NoMain
    /\ api = NoApi
    /\ call = NoCall

\* str.lower() on the names the model uses
Lower(s) ==
    CASE s = "Nigeria" -> "nigeria"
      [] s = "Atlantis" -> "atlantis"
      [] OTHER -> s

\* str.strip().title() on the names the model uses
Title(s) == IF s = "africa" THEN "Africa" ELSE s

\* utilities.countries_info.get_country_info: found / ValueError
CountryInLookup(name) == \E c \in DOMAIN country_info_map : Lower(c) = Lower(name)

CountryLookup(name) ==
    country_info_map[CHOOSE c \in DOMAIN country_info_map : Lower(c) = Lower(name)]

Ended == pc \in {"idle", "returned", "raised", "rejected"}

\* an invocation ends with an exception of type exc
Fail(exc) ==
    /\ pc' = "raised"
    /\ raised' = exc

\* process_country, lines 64-109: lookup, provider auto-detection, provider
\* construction (ValueError without the API key)
StartCountry(name, provider_arg, skip, key_set) ==
    /\ Ended
    /\ runs < MaxRuns
    /\ runs' = runs + 1
    /\ LET found == CountryInLookup(name)
           continent_name == IF found THEN CountryLookup(name).continent ELSE None
           provider == IF provider_arg # None THEN provider_arg
                       ELSE IF found THEN CountryLookup(name).llm
                       ELSE "ai21"
       IN /\ run' = [NoRun EXCEPT !.cli = "country", !.provider = provider,
                                  !.country_name = name, !.skip_cities = skip,
                                  !.continent_name = continent_name]
          /\ IF provider \notin Providers \/ ~key_set
             THEN Fail("ValueError")
             ELSE pc' = "get_model_identity" /\ raised' = "none"
    /\ retry' = NoRetry
    /\ db_error' = "none"
    /\ written' = {}
    /\ db0' = db
    /\ UNCHANGED <<db, api, call>>

\* process_country called on its own, outside a CLI entry point
CallProcessCountry(name, provider_arg, skip, key_set) ==
    /\ StartCountry(name, provider_arg, skip, key_set)
    /\ UNCHANGED main

\* cli.py main, lines 55-74: name validation, provider construction
StartContinent(name, skip_validation, provider, key_set) ==
    /\ Ended
    /\ runs < MaxRuns
    /\ runs' = runs + 1
    /\ run' = [NoRun EXCEPT !.cli = "continent", !.provider = provider,
                            !.continent_name = name]
    /\ IF ~skip_validation /\ Title(name) \notin VALID_CONTINENTS
       THEN pc' = "rejected" /\ raised' = "none"
       ELSE IF ~key_set THEN Fail("ValueError")
       ELSE pc' = "get_model_identity" /\ raised' = "none"
    /\ retry' = NoRetry
    /\ db_error' = "none"
    /\ written' = {}
    /\ db0' = db
    /\ UNCHANGED <<db, main, api, call>>

IdentityResponses(p) ==
    IF p = "anthropic"
    THEN { [kind |-> k, identity |-> NoIdentity] : k \in {"api_error", "unparseable"} }
         \cup { [kind |-> "answer", identity |-> a] : a \in AnthropicAnswers }
    ELSE { [kind |-> "hardcoded", identity |-> HardcodedIdentity(p)] }

\* llm_provider.get_model_identity()
GetModelIdentity(resp) ==
    /\ pc = "get_model_identity"
    /\ resp \in IdentityResponses(run.provider)
    /\ CASE resp.kind = "api_error" -> Fail("APIError") /\ run' = run
         [] resp.kind = "unparseable" -> Fail("ValueError") /\ run' = run
         [] OTHER -> /\ pc' = "upsert_ai_model"
                     /\ run' = [run EXCEPT !.model_identity = resp.identity]
                     /\ raised' = raised
    /\ UNCHANGED <<db, retry, db_error, written, db0, runs, main, api, call>>

\* position after upsert_ai_model returned
AfterAiModel ==
    IF run.cli = "continent" THEN "get_continent_info"
    ELSE IF run.continent_name # None THEN "get_continent_id"
    ELSE "country_query"

\* upsert_ai_model(model_identity)
UpsertAiModel(err) ==
    /\ pc = "upsert_ai_model"
    /\ LET tx == InsertAiModel(db.ai_models, run.model_identity)
           id == ReturningAiModelId(tx, run.model_identity)
       IN /\ db' = [db EXCEPT !.ai_models = Transaction(db.ai_models, tx, err)]
          /\ db_error' = err
          /\ IF err = "none"
             THEN /\ run' = [run EXCEPT !.ai_model_id = id,
                                        !.calls = @ \cup {"upsert_ai_model"}]
                  /\ written' = written \cup {<<"ai_models", id>>}
                  /\ pc' = AfterAiModel
                  /\ raised' = raised
                  /\ retry' = IF AfterAiModel = "country_query"
                              THEN NewRetry("country") ELSE retry
             ELSE /\ run' = [run EXCEPT !.calls = @ \cup {"upsert_ai_model"}]
                  /\ Fail("psycopg2.Error")
                  /\ UNCHANGED <<written, retry>>
    /\ UNCHANGED <<db0, runs, main, api, call>>

GetContinentIdSwallowsErrors(err) ==
    /\ pc = "get_continent_id"
    /\ err \in {"none", "connect", "execute"}
    /\ db_error' = err
    /\ run' = [run EXCEPT
                 !.continent_id = IF err = "none"
                                  THEN SelectContinentId(db.continents, run.continent_name)
                                  ELSE NullId]
    /\ pc' = "country_query"
    /\ retry' = NewRetry("country")
    /\ raised' = raised
    /\ UNCHANGED <<db, written, db0, runs, main, api, call>>

\* get_continent_id(continent_name): SELECT, no transaction to roll back
GetContinentId(err) ==
    /\ pc = "get_continent_id"
    /\ err \in {"none", "connect", "execute"}
    /\ db_error' = err
    /\ IF err = "none"
       THEN /\ run' = [run EXCEPT
                         !.continent_id = SelectContinentId(db.continents, run.continent_name)]
            /\ pc' = "country_query"
            /\ retry' = NewRetry("country")
            /\ raised' = raised
       ELSE /\ Fail("psycopg2.Error")
            /\ UNCHANGED <<run, retry>>
    /\ UNCHANGED <<db, written, db0, runs, main, api, call>>

\* one iteration of the for loop of get_*_with_retry, the raise after the
\* loop included: r the helper's locals, exc what the attempt raised
RetryIteration(r, p, exc, kind) ==
    LET tried == [r EXCEPT !.outcomes = Append(@, exc), !.last_resp = kind] IN
    IF exc = "none" THEN [tried EXCEPT !.status = "returned"]
    ELSE IF ~Catches(p, exc) THEN [tried EXCEPT !.status = "raised", !.raises = exc]
    ELSE LET slept == IF ShouldSleep(r.attempt)
                      THEN [tried EXCEPT !.sleeps = Append(@, SleepDelay(p, exc))]
                      ELSE tried
         IN IF r.attempt + 1 < MAX_RETRIES
            THEN [slept EXCEPT !.attempt = r.attempt + 1]
            ELSE [slept EXCEPT !.status = "raised", !.raises = "ValueError"]

\* llm_provider.get_country_info_with_retry(country_name): one attempt
CountryAttempt(resp) ==
    /\ pc = "country_query"
    /\ resp.kind \in CountryKinds(run.provider)
    /\ LET r == RetryIteration(retry, run.provider,
                               GetCountryInfo(run.provider, resp), resp.kind)
       IN /\ retry' = r
          /\ CASE r.status = "returned" ->
                    /\ pc' = "upsert_country"
                    /\ run' = [run EXCEPT !.info = [population |-> resp.population]]
                    /\ raised' = raised
               [] r.status = "raised" -> Fail(r.raises) /\ run' = run
               [] OTHER -> UNCHANGED <<pc, run, raised>>
    /\ UNCHANGED <<db, db_error, written, db0, runs, main, api, call>>

\* upsert_country(country_name, country_info, ai_model_id, continent_id)
UpsertCountry(err) ==
    /\ pc = "upsert_country"
    /\ LET tx == InsertCountry(db.countries, run.country_name, run.info,
                               run.ai_model_id, run.continent_id)
           id == ReturningCountryId(tx, run.country_name)
       IN /\ db' = [db EXCEPT !.countries = Transaction(db.countries, tx, err)]
          /\ db_error' = err
          /\ IF err = "none"
             THEN /\ run' = [run EXCEPT !.country_id = id,
                                        !.calls = @ \cup {"upsert_country"}]
                  /\ written' = written \cup {<<"countries", id>>}
                  /\ pc' = IF run.skip_cities THEN "returned" ELSE "cities_query"
                  /\ retry' = IF run.skip_cities THEN NoRetry ELSE NewRetry("cities")
                  /\ raised' = raised
             ELSE /\ run' = [run EXCEPT !.calls = @ \cup {"upsert_country"}]
                  /\ Fail("psycopg2.Error")
                  /\ retry' = NoRetry
                  /\ UNCHANGED written
    /\ UNCHANGED <<db0, runs, main, api, call>>

\* llm_provider.get_cities_info_with_retry(country_name): one attempt
CitiesAttempt(resp) ==
    /\ pc = "cities_query"
    /\ resp.kind \in CitiesKinds(run.provider)
    /\ LET got == GetCitiesInfo(run.provider, resp)
           r == RetryIteration(retry, run.provider, got.exc, resp.kind)
       IN /\ retry' = r
          /\ CASE r.status = "returned" ->
                    /\ pc' = IF got.cities = <<>> THEN "returned" ELSE "upsert_city"
                    /\ run' = [run EXCEPT !.cities = got.cities]
                    /\ raised' = raised
               [] r.status = "raised" -> Fail(r.raises) /\ run' = run
               [] OTHER -> UNCHANGED <<pc, run, raised>>
    /\ UNCHANGED <<db, db_error, written, db0, runs, main, api, call>>

\* for city in cities: upsert_city(city, country_id)
UpsertCity(err) ==
    /\ pc = "upsert_city"
    /\ LET city == Head(run.cities)
           tx == InsertCity(db.cities, city, run.country_id)
           id == ReturningCityId(tx, city, run.country_id)
       IN /\ db' = [db EXCEPT !.cities = Transaction(db.cities, tx, err)]
          /\ db_error' = err
          /\ IF err = "none"
             THEN /\ run' = [run EXCEPT !.cities = Tail(@),
                                        !.city_ids = Append(@, id),
                                        !.calls = @ \cup {"upsert_city"}]
                  /\ written' = written \cup {<<"cities", id>>}
                  /\ pc' = IF Tail(run.cities) = <<>> THEN "returned" ELSE "upsert_city"
                  /\ raised' = raised
             ELSE /\ run' = [run EXCEPT !.calls = @ \cup {"upsert_city"}]
                  /\ Fail("psycopg2.Error")
                  /\ UNCHANGED written
    /\ retry' = NoRetry
    /\ UNCHANGED <<db0, runs, main, api, call>>

\* provider.get_continent_info(continent_name), no retry
GetContinentInfoStep(resp) ==
    /\ pc = "get_continent_info"
    /\ resp \in ContinentResponses
    /\ LET exc == GetContinentInfo(run.provider, resp)
       IN IF exc = "none"
          THEN /\ pc' = "upsert_continent"
               /\ run' = [run EXCEPT !.info = [population |-> resp.population]]
               /\ raised' = raised
          ELSE Fail(exc) /\ run' = run
    /\ UNCHANGED <<db, retry, db_error, written, db0, runs, main, api, call>>

\* upsert_continent(continent_name, continent_info, ai_model_id)
UpsertContinent(err) ==
    /\ pc = "upsert_continent"
    /\ LET tx == InsertContinent(db.continents, run.continent_name, run.info,
                                 run.ai_model_id)
           id == ReturningContinentId(tx, run.continent_name)
       IN /\ db' = [db EXCEPT !.continents = Transaction(db.continents, tx, err)]
          /\ db_error' = err
          /\ IF err = "none"
             THEN /\ run' = [run EXCEPT !.continent_id = id,
                                        !.calls = @ \cup {"upsert_continent"}]
                  /\ written' = written \cup {<<"continents", id>>}
                  /\ pc' = "returned"
                  /\ raised' = raised
             ELSE /\ run' = [run EXCEPT !.calls = @ \cup {"upsert_continent"}]
                  /\ Fail("psycopg2.Error")
                  /\ UNCHANGED written
    /\ UNCHANGED <<retry, db0, runs, main, api, call>>

\* ------------------------------------------------- CLI entry points
\* exception types of the model; all of them derive from Exception
ExceptionClasses ==
    {"ValueError", "TypeError", "AttributeError", "APIError", "RateLimitError",
     "psycopg2.Error", "ZeroDivisionError", "FileNotFoundError"}

IsExceptionOnlyValueError(exc) == exc = "ValueError"

\* except Exception
IsException(exc) == exc \in ExceptionClasses

\* a CLI entry point returns code
MainReturns(code) == [main EXCEPT !.pc = "done", !.outcome = "returned", !.exit = code]

\* a CLI entry point ends with an exception nobody caught
MainEscapes(exc) == [main EXCEPT !.pc = "done", !.outcome = "raised", !.escaped = exc]

\* cli_country main, lines 222-229: the call of process_country
MainCountry(name, provider_arg, skip, key_set) ==
    /\ main.pc = "idle"
    /\ StartCountry(name, provider_arg, skip, key_set)
    /\ main' = [NoMain EXCEPT !.prog = "cli_country", !.pc = "call",
                              !.skip_cities = skip, !.calls = <<name>>]

MainExitCodeAlwaysZero(returned) == 0

\* cli_country main: return 0 after the try body, return 1 in the handlers
MainExitCode(returned) == IF returned THEN 0 ELSE 1

\* cli_country main, lines 231-245: process_country returned or raised
MainCountryReturn ==
    /\ main.prog = "cli_country"
    /\ main.pc = "call"
    /\ pc \in {"returned", "raised"}
    /\ main' = IF pc = "returned" THEN MainReturns(MainExitCode(TRUE))
               ELSE IF raised = "ValueError" \/ IsException(raised)
                    THEN MainReturns(MainExitCode(FALSE))
               ELSE MainEscapes(raised)
    /\ UNCHANGED <<db, pc, run, retry, raised, db_error, written, db0, runs, api, call>>

BatchProviders == {"mistral", "cohere"}

\* get_countries_by_llm: the countries of one LLM column, in file order
AssignedCountries(p) ==
    { c \in DOMAIN country_info_map : country_info_map[c].llm = p }

\* what get_countries_by_llm can give the batch CLI: a list without
\* duplicates (possibly empty: a column without countries), ValueError (no
\* such column), FileNotFoundError (no countries.csv)
LoadResults(p) ==
    { [exc |-> e, countries |-> <<>>] : e \in {"ValueError", "FileNotFoundError"} }
    \cup { [exc |-> "none", countries |-> cs] :
              cs \in { q \in UNION { [1..n -> AssignedCountries(p)] : n \in 0..MaxRuns } :
                          \A i, j \in 1..Len(q) : q[i] = q[j] => i = j } }

BatchStartIgnoresDryRun(p, dry_run, skip, load) ==
    /\ main.pc = "idle"
    /\ load \in LoadResults(p)
    /\ LET started == [NoMain EXCEPT !.prog = "batch", !.provider = p,
                                     !.dry_run = dry_run, !.skip_cities = skip,
                                     !.countries = load.countries,
                                     !.load = load.exc]
       IN main' =
             IF load.exc = "ValueError"
             THEN [started EXCEPT !.pc = "done", !.outcome = "returned", !.exit = 1]
             ELSE IF load.exc # "none"
             THEN [started EXCEPT !.pc = "done", !.outcome = "raised",
                                  !.escaped = load.exc]
             ELSE [started EXCEPT !.pc = "loop"]
    /\ UNCHANGED <<db, pc, run, retry, raised, db_error, written, db0, runs, api, call>>

\* batch main, lines 50-74: arguments, countries list, dry run
BatchStart(p, dry_run, skip, load) ==
    /\ main.pc = "idle"
    /\ load \in LoadResults(p)
    /\ LET started == [NoMain EXCEPT !.prog = "batch", !.provider = p,
                                     !.dry_run = dry_run, !.skip_cities = skip,
                                     !.countries = load.countries,
                                     !.load = load.exc]
       IN main' =
             IF load.exc = "ValueError"
             THEN [started EXCEPT !.pc = "done", !.outcome = "returned", !.exit = 1]
             ELSE IF load.exc # "none"
             THEN [started EXCEPT !.pc = "done", !.outcome = "raised",
                                  !.escaped = load.exc]
             ELSE IF dry_run
             THEN [started EXCEPT !.pc = "done", !.outcome = "returned", !.exit = 0]
             ELSE [started EXCEPT !.pc = "loop"]
    /\ UNCHANGED <<db, pc, run, retry, raised, db_error, written, db0, runs, api, call>>

\* batch main, lines 76-85: the loop calls process_country for the next country
BatchCall(key_set) ==
    /\ main.prog = "batch"
    /\ main.pc = "loop"
    /\ Len(main.calls) < Len(main.countries)
    /\ StartCountry(main.countries[Len(main.calls) + 1], main.provider,
                    main.skip_cities, key_set)
    /\ main' = [main EXCEPT !.pc = "call",
                            !.calls = Append(@, main.countries[Len(main.calls) + 1])]

BatchRecordWithoutWaiting ==
    /\ main.prog = "batch"
    /\ main.pc = "call"
    /\ main' = [main EXCEPT !.pc = "loop", !.results = Append(@, "ok"),
                            !.success_count = @ + 1]
    /\ UNCHANGED <<db, pc, run, retry, raised, db_error, written, db0, runs, api, call>>

\* batch main, lines 86-92: process_country returned or raised
BatchRecord ==
    /\ main.prog = "batch"
    /\ main.pc = "call"
    /\ pc \in {"returned", "raised"}
    /\ main' = IF pc = "returned"
               THEN [main EXCEPT !.pc = "loop", !.results = Append(@, "ok"),
                                 !.success_count = @ + 1]
               ELSE IF IsException(raised)
               THEN [main EXCEPT !.pc = "loop", !.results = Append(@, "error"),
                                 !.failure_count = @ + 1]
               ELSE MainEscapes(raised)
    /\ UNCHANGED <<db, pc, run, retry, raised, db_error, written, db0, runs, api, call>>

\* return 0 if failure_count == 0 else 1
BatchExitCode(failure_count) == IF failure_count = 0 THEN 0 ELSE 1

\* batch main, lines 94-110: the summary after the loop; line 102 divides by
\* len(countries)
BatchSummary ==
    /\ main.prog = "batch"
    /\ main.pc = "loop"
    /\ Len(main.calls) = Len(main.countries)
    /\ main' = IF Len(main.countries) = 0 THEN MainEscapes("ZeroDivisionError")
               ELSE MainReturns(BatchExitCode(main.failure_count))
    /\ UNCHANGED <<db, pc, run, retry, raised, db_error, written, db0, runs, api, call>>

\* ------------------------------------------------- backend (FastAPI)
\* result.scalar_one_or_none() raises MultipleResultsFound on two rows; the
\* endpoints do not catch it and the client receives 500
MultipleResultsFound(rows) == Cardinality(rows) > 1

\* crud/continent.py
get_continent(t, continent_id) ==
    {r \in t.continents : r.continent_id = continent_id}

get_continent_by_name(t, name) ==
    {r \in t.continents : ILike(r.continent_name, name)}

get_continents(t) == t.continents

\* crud/country.py
get_country(t, country_id) ==
    {r \in t.countries : r.country_id = country_id}

get_country_by_name(t, name) ==
    {r \in t.countries : ILike(r.name, name)}

get_countries(t) == t.countries

get_countries_by_continent_id(t, continent_id) ==
    {r \in t.countries : r.continent_id = continent_id}

get_countries_by_continent_name(t, continent_name) ==
    {r \in t.countries :
        \E c \in t.continents : /\ r.continent_id = c.continent_id
                                /\ ILike(c.continent_name, continent_name)}

get_countries_by_model_id(t, model_id) ==
    {r \in t.countries : r.ai_model_id = model_id}

get_countries_by_model_name(t, model_name) ==
    {r \in t.countries :
        \E m \in t.ai_models : /\ r.ai_model_id = m.ai_model_id
                               /\ ILike(m.model_provider, model_name)}

\* crud/city.py
get_city(t, city_id) ==
    {r \in t.cities : r.city_id = city_id}

get_city_by_name(t, name) ==
    {r \in t.cities : ILike(r.name, name)}

get_cities(t) == t.cities

get_cities_by_country_id(t, country_id) ==
    {r \in t.cities : r.country_id = country_id}

get_cities_by_country_name(t, country_name) ==
    {r \in t.cities :
        \E c \in t.countries : /\ r.country_id = c.country_id
                               /\ ILike(c.name, country_name)}

\* crud/glossary.py
get_glossary_entry(t, glossary_id) ==
    {r \in t.glossary : r.glossary_id = glossary_id}

get_glossary_entry_by_name(t, entry) ==
    {r \in t.glossary : ILike(r.entry, entry)}

get_all_glossary_entries(t) == t.glossary

\* crud/ai_model.py
get_ai_model(t, ai_model_id) ==
    {r \in t.ai_models : r.ai_model_id = ai_model_id}

get_ai_models(t) == t.ai_models

\* a detail endpoint: the row, 404 when there is none
DetailResponse(endpoint, rows, not_found, id, name) ==
    LET asked == [NoResponse EXCEPT !.endpoint = endpoint, !.id = id, !.name = name]
    IN IF MultipleResultsFound(rows)
       THEN [asked EXCEPT !.status = 500, !.detail = "Internal Server Error"]
       ELSE IF rows = {}
       THEN [asked EXCEPT !.status = 404, !.detail = not_found]
       ELSE [asked EXCEPT !.status = 200, !.items = rows]

\* a list endpoint: the rows and count=len(rows)
ListResponse(endpoint, rows, id, name) ==
    [NoResponse EXCEPT !.endpoint = endpoint, !.id = id, !.name = name,
                       !.status = 200, !.items = rows, !.count = Cardinality(rows)]

\* The backend answers a request. The handlers only read the tables and keep
\* nothing between requests, so a behaviour follows one request.
Respond(response) ==
    /\ api.response = NoResponse
    /\ api' = [api EXCEPT !.response = response]
    /\ UNCHANGED <<db, pc, run, retry, raised, db_error, written, db0, runs, main, call>>

\* api/v1/continents.py
list_continents ==
    Respond(ListResponse("list_continents", get_continents(api.tables), 0, <<>>))

get_continent_by_id(continent_id) ==
    Respond(DetailResponse("get_continent_by_id",
                           get_continent(api.tables, continent_id),
                           "Continent not found", continent_id, <<>>))

get_continent_by_name_endpoint(continent_name) ==
    Respond(DetailResponse("get_continent_by_name_endpoint",
                           get_continent_by_name(api.tables, continent_name),
                           "Continent not found", 0, continent_name))

\* api/v1/countries.py
list_countries ==
    Respond(ListResponse("list_countries", get_countries(api.tables), 0, <<>>))

get_country_by_id(country_id) ==
    Respond(DetailResponse("get_country_by_id", get_country(api.tables, country_id),
                           "Country not found", country_id, <<>>))

get_country_by_name_endpoint(country_name) ==
    Respond(DetailResponse("get_country_by_name_endpoint",
                           get_country_by_name(api.tables, country_name),
                           "Country not found", 0, country_name))

get_countries_by_continent_id_endpoint(continent_id) ==
    Respond(ListResponse("get_countries_by_continent_id_endpoint",
                         get_countries_by_continent_id(api.tables, continent_id),
                         continent_id, <<>>))

get_countries_by_continent_name_endpoint(continent_name) ==
    Respond(ListResponse("get_countries_by_continent_name_endpoint",
                         get_countries_by_continent_name(api.tables, continent_name),
                         0, continent_name))

get_countries_by_model_name_endpoint(model_name) ==
    Respond(ListResponse("get_countries_by_model_name_endpoint",
                         get_countries_by_model_name(api.tables, model_name),
                         0, model_name))

get_countries_by_model_id_endpoint(model_id) ==
    Respond(ListResponse("get_countries_by_model_id_endpoint",
                         get_countries_by_model_id(api.tables, model_id),
                         model_id, <<>>))

\* api/v1/cities.py
list_cities ==
    Respond(ListResponse("list_cities", get_cities(api.tables), 0, <<>>))

get_city_by_name_endpoint(city_name) ==
    Respond(DetailResponse("get_city_by_name_endpoint",
                           get_city_by_name(api.tables, city_name),
                           "City not found", 0, city_name))

get_cities_by_country_name_endpoint(country_name) ==
    Respond(ListResponse("get_cities_by_country_name_endpoint",
                         get_cities_by_country_name(api.tables, country_name),
                         0, country_name))

get_cities_by_country_id_endpoint(country_id) ==
    Respond(ListResponse("get_cities_by_country_id_endpoint",
                         get_cities_by_country_id(api.tables, country_id),
                         country_id, <<>>))

get_city_by_id(city_id) ==
    Respond(DetailResponse("get_city_by_id", get_city(api.tables, city_id),
                           "City not found", city_id, <<>>))

\* api/v1/glossary.py
list_glossary_entries ==
    Respond(ListResponse("list_glossary_entries",
                         get_all_glossary_entries(api.tables), 0, <<>>))

get_glossary_by_id(glossary_id) ==
    Respond(DetailResponse("get_glossary_by_id",
                           get_glossary_entry(api.tables, glossary_id),
                           "Glossary entry not found", glossary_id, <<>>))

get_glossary_by_entry_name(entry_name) ==
    Respond(DetailResponse("get_glossary_by_entry_name",
                           get_glossary_entry_by_name(api.tables, entry_name),
                           "Glossary entry not found", 0, entry_name))

\* api/v1/ai_models.py
list_ai_models ==
    Respond(ListResponse("list_ai_models", get_ai_models(api.tables), 0, <<>>))

get_ai_model_by_id(ai_model_id) ==
    Respond(DetailResponse("get_ai_model_by_id",
                           get_ai_model(api.tables, ai_model_id),
                           "AI model not found", ai_model_id, <<>>))

\* ------------------------------------------------- utilities
\* color_palette.py. Colours are RGB triples; a hex colour is the sequence of
\* its characters.
GOOD_RGB == <<0, 255, 0>>
NEUTRAL_RGB == <<255, 255, 250>>
BAD_RGB == <<255, 0, 0>>

HexDigits ==
    <<"0", "1", "2", "3", "4", "5", "6", "7", "8", "9", "A", "B", "C", "D", "E", "F">>

\* f"{n:02X}"
Hex02X(n) == <<HexDigits[(n \div 16) + 1], HexDigits[(n % 16) + 1]>>

rgb_to_hex(rgb) == <<"#">> \o Hex02X(rgb[1]) \o Hex02X(rgb[2]) \o Hex02X(rgb[3])

GOOD_COLOR == rgb_to_hex(GOOD_RGB)
BAD_COLOR == rgb_to_hex(BAD_RGB)

\* int(color1[i] + (color2[i] - color1[i]) * t) for t = num / den in [0, 1]
interpolate_rgb(color1, color2, num, den) ==
    [i \in 1 .. 3 |-> (color1[i] * den + (color2[i] - color1[i]) * num) \div den]

\* get_color_for_value: all quantities are doubled, so that the default
\* median (min_val + max_val) / 2 is an integer
get_color_for_value(value, min_val, max_val, higher_is_better, has_median, median_val) ==
    LET lo == 2 * min_val
        hi == 2 * max_val
        median == IF has_median THEN 2 * median_val ELSE min_val + max_val
        v == IF 2 * value > hi THEN hi ELSE IF 2 * value < lo THEN lo ELSE 2 * value
        low_zone == v <= median
        num == IF low_zone THEN (IF median = lo THEN 0 ELSE v - lo)
               ELSE (IF hi = median THEN 1 ELSE v - median)
        den == IF low_zone THEN (IF median = lo THEN 1 ELSE median - lo)
               ELSE (IF hi = median THEN 1 ELSE hi - median)
        from == IF low_zone THEN (IF higher_is_better THEN BAD_RGB ELSE GOOD_RGB)
                ELSE NEUTRAL_RGB
        to == IF low_zone THEN NEUTRAL_RGB
              ELSE (IF higher_is_better THEN GOOD_RGB ELSE BAD_RGB)
    IN IF min_val >= max_val THEN [exc |-> "ValueError", color |-> <<>>]
       ELSE IF ~(lo <= median /\ median <= hi) THEN [exc |-> "ValueError", color |-> <<>>]
       ELSE [exc |-> "none", color |-> rgb_to_hex(interpolate_rgb(from, to, num, den))]

\* The values asked for: the ends of the range, the median, and one value
\* beyond each end. For these t is 0 or 1, where float arithmetic is exact.
ColorCalls ==
    {[fn |-> "get_color_for_value", status |-> "called",
      value |-> v, min_val |-> lo, max_val |-> hi, higher_is_better |-> h,
      has_median |-> g, median_val |-> m,
      result |-> [exc |-> "none", color |-> <<>>]] :
        lo \in 0 .. MaxVal, hi \in 0 .. MaxVal, m \in 0 .. MaxVal,
        v \in -1 .. MaxVal + 1, h \in BOOLEAN, g \in BOOLEAN}

ColorInputs ==
    {c \in ColorCalls :
        /\ c.value \in {c.min_val - 1, c.min_val, c.max_val, c.max_val + 1}
                         \cup (IF c.has_median THEN {c.median_val} ELSE {})
        /\ ~c.has_median => c.median_val = 0}

\* one call of get_color_for_value
CallGetColorForValue ==
    /\ call.fn = "get_color_for_value"
    /\ call.status = "called"
    /\ call' = [call EXCEPT
                  !.status = "returned",
                  !.result = get_color_for_value(call.value, call.min_val, call.max_val,
                                                 call.higher_is_better, call.has_median,
                                                 call.median_val)]
    /\ UNCHANGED <<db, pc, run, retry, raised, db_error, written, db0, runs, main, api>>

\* Python values an airport_code can hold after json.loads: None, a string
\* (a tuple of characters) or a number
CodeChars == {"L", "S"}

CodeStrings == UNION { [1..n -> CodeChars] : n \in 0..MaxCodeLen }

PyNone == [type |-> "NoneType", str |-> <<>>]

PyStr(s) == [type |-> "str", str |-> s]

PyInt == [type |-> "int", str |-> <<>>]

AirportCodeValues == {PyNone, PyInt} \cup { PyStr(s) : s \in CodeStrings }

\* _sanitize_city_data(data, max_length=250) of the google provider on one
\* text field: data[field][: max_length - 3] + "...", by length
GOOGLE_MAX_LENGTH == 250

TruncateText(len) ==
    IF len > GOOGLE_MAX_LENGTH THEN (GOOGLE_MAX_LENGTH - 3) + 3 ELSE len

\* if "airport_code" in city: code is None or a str shorter than 3 -> None
SanitizeAirportCode(city) ==
    IF city.has_airport_code
       /\ (city.airport_code = PyNone
           \/ (city.airport_code.type = "str" /\ Len(city.airport_code.str) < 3))
    THEN [city EXCEPT !.airport_code = PyNone]
    ELSE city

\* _sanitize_city_data of the groq, openai and google providers; a city dict
\* is its airport_code (when the key is present) and the lengths of its
\* description and interesting_fact
sanitize_city_data(provider, city) ==
    IF provider = "google"
    THEN SanitizeAirportCode(
            [city EXCEPT !.description = TruncateText(@),
                         !.interesting_fact = TruncateText(@)])
    ELSE SanitizeAirportCode(city)

CityDataProviders == {"groq", "openai", "google"}

TextLengths == {GOOGLE_MAX_LENGTH, GOOGLE_MAX_LENGTH + 1}

CityDicts ==
    { [has_airport_code |-> TRUE, airport_code |-> v,
       description |-> d, interesting_fact |-> f] :
          v \in AirportCodeValues, d \in TextLengths, f \in TextLengths }
    \cup { [has_airport_code |-> FALSE, airport_code |-> PyNone,
            description |-> d, interesting_fact |-> f] :
              d \in TextLengths, f \in TextLengths }

CityDictsOf(p) ==
    IF p = "google" THEN CityDicts
    ELSE { d \in CityDicts : /\ d.description = GOOGLE_MAX_LENGTH
                             /\ d.interesting_fact = GOOGLE_MAX_LENGTH }

CityDataInputs ==
    UNION { { [fn |-> "_sanitize_city_data", status |-> "called", provider |-> p,
               city |-> c, result |-> c] : c \in CityDictsOf(p) } :
            p \in CityDataProviders }

\* one call of _sanitize_city_data
CallSanitizeCityData ==
    /\ call.fn = "_sanitize_city_data"
    /\ call.status = "called"
    /\ call' = [call EXCEPT !.status = "returned",
                            !.result = sanitize_city_data(call.provider, call.city)]
    /\ UNCHANGED <<db, pc, run, retry, raised, db_error, written, db0, runs, main, api>>

\* Text is a tuple of characters. The texts of the model are single lines
\* (no newline and no word "json"), so ^ and $ of the MULTILINE patterns are
\* the two ends of the text.
QUOTE == "\""

\* the grave accent, U+0060
BACKTICK == "U+0060"

\* one of [\x00-\x08\x0b\x0c\x0e-\x1f]
CTRL == "\\x01"

Digits == {"1"}

WordChars == {"a", "b"} \cup Digits

CharAt(s, i) == IF i \in 1..Len(s) THEN s[i] ELSE "EOF"

Rest(s, i) == SubSeq(s, i, Len(s))

\* \s* from position i: the position after the run of spaces
RECURSIVE SkipSpaces(_, _)
SkipSpaces(s, i) == IF CharAt(s, i) = " " THEN SkipSpaces(s, i + 1) ELSE i

\* length of the run of characters of set cs that starts at position i
RECURSIVE RunLength(_, _, _)
RunLength(s, i, cs) == IF CharAt(s, i) \in cs THEN 1 + RunLength(s, i + 1, cs) ELSE 0

IsFence(s, i) ==
    CharAt(s, i) = BACKTICK /\ CharAt(s, i + 1) = BACKTICK /\ CharAt(s, i + 2) = BACKTICK

\* re.sub(r"^```(?:json)?\s*\n?", "", content, flags=re.MULTILINE)
StripOpeningFence(s) == IF IsFence(s, 1) THEN Rest(s, SkipSpaces(s, 4)) ELSE s

\* re.sub(r"\n?```\s*$", "", sanitized, flags=re.MULTILINE)
StripClosingFence(s) ==
    LET at == { i \in 1..Len(s) : IsFence(s, i) /\ SkipSpaces(s, i + 3) > Len(s) }
    IN IF at = {} THEN s
       ELSE SubSeq(s, 1, (CHOOSE i \in at : \A j \in at : i <= j) - 1)

\* re.sub(r"//.*?$", "", sanitized, flags=re.MULTILINE)
StripLineComment(s) ==
    LET at == { i \in 1..Len(s) : s[i] = "/" /\ CharAt(s, i + 1) = "/" }
    IN IF at = {} THEN s
       ELSE SubSeq(s, 1, (CHOOSE i \in at : \A j \in at : i <= j) - 1)

\* re.sub(r"/\*.*?\*/", "", sanitized, flags=re.DOTALL), from position i on
RECURSIVE StripBlockCommentsFrom(_, _)
StripBlockCommentsFrom(s, i) ==
    IF i > Len(s) THEN <<>>
    ELSE LET ends == { j \in i + 2 .. Len(s) : s[j] = "*" /\ CharAt(s, j + 1) = "/" }
         IN IF s[i] = "/" /\ CharAt(s, i + 1) = "*" /\ ends # {}
            THEN StripBlockCommentsFrom(s, (CHOOSE j \in ends : \A k \in ends : j <= k) + 2)
            ELSE <<s[i]>> \o StripBlockCommentsFrom(s, i + 1)

StripBlockComments(s) == StripBlockCommentsFrom(s, 1)

\* re.sub(r"[\x00-\x08\x0b\x0c\x0e-\x1f]", "", sanitized)
IsNotControl(c) == c # CTRL

RemoveControlChars(s) == SelectSeq(s, IsNotControl)

\* number of consecutive groups ,\d{3} from position i
RECURSIVE CommaGroups(_, _)
CommaGroups(s, i) ==
    IF CharAt(s, i) = "," /\ RunLength(s, i + 1, Digits) >= 3
    THEN 1 + CommaGroups(s, i + 4)
    ELSE 0

IsNotComma(c) == c # ","

\* re.sub(r'(:\s*)(\d{1,3}(?:,\d{3})+)(?=[,\s\n\r}\]])', remove_number_commas,
\* sanitized), from position i on
RECURSIVE RemoveNumberCommasFrom(_, _)
RemoveNumberCommasFrom(s, i) ==
    IF i > Len(s) THEN <<>>
    ELSE LET j == SkipSpaces(s, i + 1)
             d == RunLength(s, j, Digits)
             gs == { g \in 1..CommaGroups(s, j + d) :
                       CharAt(s, j + d + 4 * g) \in {",", " ", "}", "]"} }
             g == CHOOSE x \in gs : \A y \in gs : y <= x
             stop == j + d + 4 * g
         IN IF s[i] = ":" /\ d \in 1..3 /\ gs # {}
            THEN SubSeq(s, i, j - 1) \o SelectSeq(SubSeq(s, j, stop - 1), IsNotComma)
                    \o RemoveNumberCommasFrom(s, stop)
            ELSE <<s[i]>> \o RemoveNumberCommasFrom(s, i + 1)

RemoveNumberCommas(s) == RemoveNumberCommasFrom(s, 1)

\* re.sub(r",\s*([}\]])", r"\1", sanitized), from position i on
RECURSIVE RemoveTrailingCommasFrom(_, _)
RemoveTrailingCommasFrom(s, i) ==
    IF i > Len(s) THEN <<>>
    ELSE LET j == SkipSpaces(s, i + 1)
         IN IF s[i] = "," /\ CharAt(s, j) \in {"}", "]"}
            THEN <<s[j]>> \o RemoveTrailingCommasFrom(s, j + 1)
            ELSE <<s[i]>> \o RemoveTrailingCommasFrom(s, i + 1)

RemoveTrailingCommas(s) == RemoveTrailingCommasFrom(s, 1)

\* re.sub(r'([{,]\s*)(\w+)(\s*:)', r'\1"\2"\3', sanitized), from position i on
RECURSIVE QuotePropertyNamesFrom(_, _)
QuotePropertyNamesFrom(s, i) ==
    IF i > Len(s) THEN <<>>
    ELSE LET j == SkipSpaces(s, i + 1)
             w == RunLength(s, j, WordChars)
             k == SkipSpaces(s, j + w)
         IN IF s[i] \in {"{", ","} /\ w >= 1 /\ CharAt(s, k) = ":"
            THEN SubSeq(s, i, j - 1) \o <<QUOTE>> \o SubSeq(s, j, j + w - 1)
                    \o <<QUOTE>> \o SubSeq(s, j + w, k)
                    \o QuotePropertyNamesFrom(s, k + 1)
            ELSE <<s[i]>> \o QuotePropertyNamesFrom(s, i + 1)

QuotePropertyNames(s) == QuotePropertyNamesFrom(s, 1)

\* _sanitize_json(content): the substitutions in the order of the code
sanitize_json(content) ==
    QuotePropertyNames(
      RemoveTrailingCommas(
        RemoveNumberCommas(
          RemoveControlChars(
            StripBlockComments(
              StripLineComment(
                StripClosingFence(
                  StripOpeningFence(content))))))))

\* json.loads on the characters of the model: objects, arrays, strings and
\* unsigned integers, spaces between tokens. A parse is [ok, out, pos]: out
\* the value written without insignificant spaces, pos the position after it.
ParseFails == [ok |-> FALSE, out |-> <<>>, pos |-> 0]

Parsed(out, pos) == [ok |-> TRUE, out |-> out, pos |-> pos]

\* a string that opens at position i: up to the next quote, no control
\* character inside
ParseString(s, i) ==
    LET closes == { j \in i + 1 .. Len(s) : s[j] = QUOTE }
        j == CHOOSE x \in closes : \A y \in closes : x <= y
    IN IF CharAt(s, i) # QUOTE \/ closes = {} THEN ParseFails
       ELSE IF \E k \in i + 1 .. j - 1 : s[k] = CTRL THEN ParseFails
       ELSE Parsed(SubSeq(s, i, j), j + 1)

RECURSIVE ParseValue(_, _)
RECURSIVE ParseMembers(_, _, _)
RECURSIVE ParseElements(_, _, _)
\* "key": value pairs from position i, acc the object written so far
ParseMembers(s, i, acc) ==
    LET key == ParseString(s, i)
        colon == SkipSpaces(s, key.pos)
        val == ParseValue(s, SkipSpaces(s, colon + 1))
        after == SkipSpaces(s, val.pos)
        member == acc \o key.out \o <<":">> \o val.out
    IN IF ~key.ok \/ CharAt(s, colon) # ":" THEN ParseFails
       ELSE IF ~val.ok THEN ParseFails
       ELSE IF CharAt(s, after) = "}" THEN Parsed(member \o <<"}">>, after + 1)
       ELSE IF CharAt(s, after) = ","
            THEN ParseMembers(s, SkipSpaces(s, after + 1), member \o <<",">>)
       ELSE ParseFails

\* array elements from position i, acc the array written so far
ParseElements(s, i, acc) ==
    LET val == ParseValue(s, i)
        after == SkipSpaces(s, val.pos)
        element == acc \o val.out
    IN IF ~val.ok THEN ParseFails
       ELSE IF CharAt(s, after) = "]" THEN Parsed(element \o <<"]">>, after + 1)
       ELSE IF CharAt(s, after) = ","
            THEN ParseElements(s, SkipSpaces(s, after + 1), element \o <<",">>)
       ELSE ParseFails

ParseValue(s, i) ==
    LET c == CharAt(s, i)
        next == SkipSpaces(s, i + 1)
        d == RunLength(s, i, Digits)
    IN CASE c = QUOTE -> ParseString(s, i)
         [] c \in Digits -> Parsed(SubSeq(s, i, i + d - 1), i + d)
         [] c = "{" -> IF CharAt(s, next) = "}" THEN Parsed(<<"{", "}">>, next + 1)
                       ELSE ParseMembers(s, next, <<"{">>)
         [] c = "[" -> IF CharAt(s, next) = "]" THEN Parsed(<<"[", "]">>, next + 1)
                       ELSE ParseElements(s, next, <<"[">>)
         [] OTHER -> ParseFails

\* json.loads(text): the value, or JSONDecodeError
json_loads(s) ==
    LET val == ParseValue(s, SkipSpaces(s, 1))
    IN IF val.ok /\ SkipSpaces(s, val.pos) > Len(s)
       THEN [exc |-> "none", value |-> val.out]
       ELSE [exc |-> "JSONDecodeError", value |-> <<>>]

\* Inputs: every document {"a": "<text>"} whose text is at most MaxText of
\* these characters, and the kinds of text the substitutions are written for
StringChars == {"/", "*", ",", ":", "a", "1", "}", "{", " "}

StringTexts == UNION { [1..n -> StringChars] : n \in 0..MaxText }

StringDocument(text) ==
    <<"{", QUOTE, "a", QUOTE, ":", " ", QUOTE>> \o text \o <<QUOTE, "}">>

PlainDocument == <<"{", QUOTE, "a", QUOTE, ":", " ", QUOTE, "a", QUOTE, ",", " ",
                   QUOTE, "b", QUOTE, ":", " ", "1", "1", "}">>

LlmDocuments ==
    {PlainDocument,
     <<BACKTICK, BACKTICK, BACKTICK, " ">> \o PlainDocument
        \o <<BACKTICK, BACKTICK, BACKTICK>>,
     PlainDocument \o <<" ", "/", "/", "a">>,
     <<"{", "/", "*", "a", "*", "/", QUOTE, "a", QUOTE, ":", "1", "}">>,
     <<"{", QUOTE, "a", QUOTE, ":", CTRL, "1", "}">>,
     <<"{", QUOTE, "a", QUOTE, ":", " ", "1", ",", "1", "1", "1", ",", "1", "1", "1", "}">>,
     <<"{", QUOTE, "a", QUOTE, ":", " ", "1", ",", " ", "}">>,
     <<"[", "1", ",", "1", ",", "]">>,
     <<"{", "a", ":", " ", "1", ",", " ", "b", "1", " ", ":", "1", "}">>}

Documents == { StringDocument(t) : t \in StringTexts } \cup LlmDocuments

SanitizerModules == {"cohere_provider", "ai21_provider"}

SanitizeInputs ==
    { [fn |-> "_sanitize_json", status |-> "called", module |-> m,
       content |-> d, result |-> <<>>] : m \in SanitizerModules, d \in Documents }

\* one call of _sanitize_json
CallSanitizeJson ==
    /\ call.fn = "_sanitize_json"
    /\ call.status = "called"
    /\ call' = [call EXCEPT !.status = "returned",
                            !.result = sanitize_json(call.content)]
    /\ UNCHANGED <<db, pc, run, retry, raised, db_error, written, db0, runs, main, api>>

\* ------------------------------------------- database connections
\* One call of an operation of db/operations.py, statement by statement:
\* conn is the state of the psycopg2 connection, exc the exception in
\* flight, raised_at the statement that raised it.
UpsertOperations == {"upsert_ai_model", "upsert_continent", "upsert_country", "upsert_city"}

DbOperations == UpsertOperations \cup {"get_continent_id"}

DbCalls ==
    { [fn |-> f, status |-> "called", pc |-> "get_connection", conn |-> "none",
       result |-> "unset", exc |-> "none", raised_at |-> "none",
       committed |-> FALSE, rolled_back |-> FALSE] : f \in DbOperations }

\* where a psycopg2.Error raised inside the try block goes: the except clause
\* of the upserts; get_continent_id has none
Handler(f) == IF f \in UpsertOperations THEN "except" ELSE "finally"

RaiseIn(c, at) ==
    [c EXCEPT !.exc = "psycopg2.Error", !.raised_at = at, !.pc = Handler(c.fn)]

\* conn = get_connection(database_url), before the try block
ConnGet(ok) ==
    /\ call.fn \in DbOperations
    /\ call.pc = "get_connection"
    /\ call' = IF ok
               THEN [call EXCEPT !.conn = "open",
                                 !.pc = IF call.fn \in UpsertOperations
                                        THEN "autocommit" ELSE "execute"]
               ELSE [call EXCEPT !.exc = "psycopg2.Error", !.raised_at = "get_connection",
                                 !.status = "raised", !.pc = "done"]
    /\ UNCHANGED <<db, pc, run, retry, raised, db_error, written, db0, runs, main, api>>

\* conn.autocommit = False
ConnAutocommit(ok) ==
    /\ call.fn \in DbOperations
    /\ call.pc = "autocommit"
    /\ call' = IF ok THEN [call EXCEPT !.pc = "execute"] ELSE RaiseIn(call, "autocommit")
    /\ UNCHANGED <<db, pc, run, retry, raised, db_error, written, db0, runs, main, api>>

\* cursor.execute(...)
ConnExecute(ok) ==
    /\ call.fn \in DbOperations
    /\ call.pc = "execute"
    /\ call' = IF ok THEN [call EXCEPT !.pc = "fetchone"] ELSE RaiseIn(call, "execute")
    /\ UNCHANGED <<db, pc, run, retry, raised, db_error, written, db0, runs, main, api>>

\* result = cursor.fetchone(); get_continent_id returns from here
ConnFetchone(ok, row) ==
    /\ call.fn \in DbOperations
    /\ call.pc = "fetchone"
    /\ call' = IF ok
               THEN [call EXCEPT !.result = row,
                                 !.pc = IF call.fn \in UpsertOperations
                                        THEN "commit" ELSE "finally"]
               ELSE RaiseIn(call, "fetchone")
    /\ UNCHANGED <<db, pc, run, retry, raised, db_error, written, db0, runs, main, api>>

\* conn.commit()
ConnCommit(ok) ==
    /\ call.fn \in DbOperations
    /\ call.pc = "commit"
    /\ call' = IF ok THEN [call EXCEPT !.committed = TRUE, !.pc = "check_result"]
               ELSE RaiseIn(call, "commit")
    /\ UNCHANGED <<db, pc, run, retry, raised, db_error, written, db0, runs, main, api>>

\* if result is None: raise ValueError(...), else return the id
ConnCheckResult ==
    /\ call.fn \in DbOperations
    /\ call.pc = "check_result"
    /\ call' = IF call.result = "none"
               THEN [call EXCEPT !.exc = "ValueError", !.raised_at = "check_result",
                                 !.pc = "finally"]
               ELSE [call EXCEPT !.pc = "finally"]
    /\ UNCHANGED <<db, pc, run, retry, raised, db_error, written, db0, runs, main, api>>

\* except psycopg2.Error: conn.rollback(); raise -- the rollback can raise too
ConnRollback(ok) ==
    /\ call.fn \in DbOperations
    /\ call.pc = "except"
    /\ call' = IF ok THEN [call EXCEPT !.rolled_back = TRUE, !.pc = "finally"]
               ELSE [call EXCEPT !.raised_at = "rollback", !.pc = "finally"]
    /\ UNCHANGED <<db, pc, run, retry, raised, db_error, written, db0, runs, main, api>>

ConnCloseUnlessRaising ==
    /\ call.fn \in DbOperations
    /\ call.pc = "finally"
    /\ call' = [call EXCEPT !.conn = IF call.exc = "none" THEN "closed" ELSE @,
                            !.status = IF call.exc = "none" THEN "returned" ELSE "raised",
                            !.pc = "done"]
    /\ UNCHANGED <<db, pc, run, retry, raised, db_error, written, db0, runs, main, api>>

\* finally: conn.close(), then the return or the raise
ConnClose ==
    /\ call.fn \in DbOperations
    /\ call.pc = "finally"
    /\ call' = [call EXCEPT !.conn = "closed",
                            !.status = IF call.exc = "none" THEN "returned" ELSE "raised",
                            !.pc = "done"]
    /\ UNCHANGED <<db, pc, run, retry, raised, db_error, written, db0, runs, main, api>>

\* ---------------------------------------------------- specifications
AllCountryResponses == UNION { CountryResponses(p) : p \in Providers }

AllCitiesResponses == UNION { CitiesResponses(p) : p \in Providers }

\* Inputs of the pipeline specification: one provider whose identity is asked
\* of the model and whose helper catches ValueError only, one with a
\* hard-coded identity whose helper catches every Exception; a continent name
\* that passes validation and one that does not; vendor responses that fail
\* in the SDK, fail to parse, or are a JSON object.
RunProviders == {"anthropic", "openai"}

RunContinentArgs == {"Africa", "Mu"}

RunContinentProviders == {"openai"}

RunKinds == {"api_error", "not_json", "no_content", "object", "object_cities"}

RunCountryResponses == { r \in AllCountryResponses : r.kind \in RunKinds }

RunCitiesResponses == { r \in AllCitiesResponses : r.kind \in RunKinds }

AllIdentityResponses == UNION { IdentityResponses(p) : p \in Providers }

Next ==
    \/ \E name \in CountryNames, p \in RunProviders, skip \in BOOLEAN,
          key_set \in BOOLEAN : CallProcessCountry(name, p, skip, key_set)
    \/ \E name \in RunContinentArgs, skip_validation \in BOOLEAN,
          p \in RunContinentProviders, key_set \in BOOLEAN :
          StartContinent(name, skip_validation, p, key_set)
    \/ \E resp \in AllIdentityResponses :
          GetModelIdentity(resp)
    \/ \E err \in DbErrors : UpsertAiModel(err)
    \/ \E err \in DbErrors : GetContinentId(err)
    \/ \E resp \in RunCountryResponses :
          CountryAttempt(resp)
    \/ \E err \in DbErrors : UpsertCountry(err)
    \/ \E resp \in RunCitiesResponses :
          CitiesAttempt(resp)
    \/ \E err \in DbErrors : UpsertCity(err)
    \/ \E resp \in ContinentResponses : GetContinentInfoStep(resp)
    \/ \E err \in DbErrors : UpsertContinent(err)

Spec == Init /\ [][Next]_vars

\* One call of a retry helper of any provider, as the provider tests make it
InitRetry ==
    /\ db = EmptyDb
    /\ \E q \in {"country", "cities"}, p \in Providers :
          /\ pc = IF q = "country" THEN "country_query" ELSE "cities_query"
          /\ run = [NoRun EXCEPT !.cli = "country", !.provider = p,
                                 !.country_name = "Nigeria"]
          /\ retry = NewRetry(q)
    /\ raised = "none"
    /\ db_error = "none"
    /\ written = {}
    /\ db0 = EmptyDb
    /\ runs = 1
    /\ main = NoMain
    /\ api = NoApi
    /\ call = NoCall

NextRetry ==
    \/ \E resp \in AllCountryResponses : CountryAttempt(resp)
    \/ \E resp \in AllCitiesResponses : CitiesAttempt(resp)

SpecRetry == InitRetry /\ [][NextRetry]_vars

\* One call of get_cities_info_with_retry of any provider, the vendor listing
\* between zero and MaxListed cities in a {"cities": [...]} object
ListedCitiesResponses ==
    { [kind |-> "object_cities", population |-> 0, cities |-> [i \in 1..n |-> c]] :
          n \in 0..MaxListed, c \in CityPayloads }

InitCities ==
    /\ db = EmptyDb
    /\ pc = "cities_query"
    /\ \E p \in Providers :
          run = [NoRun EXCEPT !.cli = "country", !.provider = p,
                              !.country_name = "Nigeria"]
    /\ retry = NewRetry("cities")
    /\ raised = "none"
    /\ db_error = "none"
    /\ written = {}
    /\ db0 = EmptyDb
    /\ runs = 1
    /\ main = NoMain
    /\ api = NoApi
    /\ call = NoCall

NextCities == \E resp \in ListedCitiesResponses : CitiesAttempt(resp)

SpecCities == InitCities /\ [][NextCities]_vars

\* One invocation of a CLI entry point (cli_country main or a batch main)
\* on an empty database
CliProviders == {"anthropic", None}

CliCountryResponses == { r \in AllCountryResponses : r.kind \in RunKinds }

CliCitiesResponses == { r \in AllCitiesResponses : r.kind \in RunKinds }

AllLoadResults == UNION { LoadResults(p) : p \in BatchProviders }

NextCli ==
    \/ \E name \in CountryNames, p \in CliProviders, skip \in BOOLEAN,
          key_set \in BOOLEAN : MainCountry(name, p, skip, key_set)
    \/ MainCountryReturn
    \/ \E p \in BatchProviders, dry_run \in BOOLEAN, skip \in BOOLEAN,
          load \in AllLoadResults : BatchStart(p, dry_run, skip, load)
    \/ \E key_set \in BOOLEAN : BatchCall(key_set)
    \/ BatchRecord
    \/ BatchSummary
    \/ \E resp \in AllIdentityResponses : GetModelIdentity(resp)
    \/ \E err \in DbErrors : UpsertAiModel(err)
    \/ \E err \in DbErrors : GetContinentId(err)
    \/ \E resp \in CliCountryResponses : CountryAttempt(resp)
    \/ \E err \in DbErrors : UpsertCountry(err)
    \/ \E resp \in CliCitiesResponses : CitiesAttempt(resp)
    \/ \E err \in DbErrors : UpsertCity(err)

SpecCli == Init /\ [][NextCli]_vars

\* The backend serving requests on a stored database.
InitApi ==
    /\ db = EmptyDb
    /\ pc = "idle"
    /\ run = NoRun
    /\ retry = NoRetry
    /\ raised = "none"
    /\ db_error = "none"
    /\ written = {}
    /\ db0 = EmptyDb
    /\ runs = 0
    /\ main = NoMain
    /\ api \in {[tables |-> d, response |-> NoResponse] : d \in StoredDatabases}
    /\ call = NoCall

NextApi ==
    \/ list_continents
    \/ \E id \in RequestIds : get_continent_by_id(id)
    \/ \E name \in RequestNames : get_continent_by_name_endpoint(name)
    \/ list_countries
    \/ \E id \in RequestIds : get_country_by_id(id)
    \/ \E name \in RequestNames : get_country_by_name_endpoint(name)
    \/ \E id \in RequestIds : get_countries_by_continent_id_endpoint(id)
    \/ \E name \in RequestNames : get_countries_by_continent_name_endpoint(name)
    \/ \E name \in RequestNames : get_countries_by_model_name_endpoint(name)
    \/ \E id \in RequestIds : get_countries_by_model_id_endpoint(id)
    \/ list_cities
    \/ \E name \in RequestNames : get_city_by_name_endpoint(name)
    \/ \E name \in RequestNames : get_cities_by_country_name_endpoint(name)
    \/ \E id \in RequestIds : get_cities_by_country_id_endpoint(id)
    \/ \E id \in RequestIds : get_city_by_id(id)
    \/ list_glossary_entries
    \/ \E id \in RequestIds : get_glossary_by_id(id)
    \/ \E name \in RequestNames : get_glossary_by_entry_name(name)
    \/ list_ai_models
    \/ \E id \in RequestIds : get_ai_model_by_id(id)

SpecApi == InitApi /\ [][NextApi]_vars

\* The continent CLI run without --skip-validation, on every name it is given.
NextContinent ==
    \/ \E name \in ContinentArgs, p \in ContinentProviders, key_set \in BOOLEAN :
          StartContinent(name, FALSE, p, key_set)
    \/ \E resp \in AllIdentityResponses : GetModelIdentity(resp)
    \/ \E err \in DbErrors : UpsertAiModel(err)
    \/ \E resp \in ContinentResponses : GetContinentInfoStep(resp)
    \/ \E err \in DbErrors : UpsertContinent(err)

SpecContinent == Init /\ [][NextContinent]_vars

\* process_country run again and again on one country, spelled with either
\* letter case, on a database where the continent CLI has or has not stored
\* the country's continent.
RerunNames == {"Nigeria", "nigeria"}

RerunDatabases ==
    {EmptyDb,
     [EmptyDb EXCEPT
        !.ai_models = {[ai_model_id |-> 1,
                        model_provider |-> HardcodedIdentity("openai").model_provider,
                        model_name |-> HardcodedIdentity("openai").model_name]},
        !.continents = {[continent_id |-> 1, name |-> "Africa", population |-> 1,
                         ai_model_id |-> 1]}]}

InitRerun ==
    /\ db \in RerunDatabases
    /\ pc = "idle"
    /\ run = NoRun
    /\ retry = NoRetry
    /\ raised = "none"
    /\ db_error = "none"
    /\ written = {}
    /\ db0 = db
    /\ runs = 0
    /\ main = NoMain
    /\ api = NoApi
    /\ call = NoCall

NextRerun ==
    \/ \E name \in RerunNames, key_set \in BOOLEAN :
          CallProcessCountry(name, None, TRUE, key_set)
    \/ \E resp \in AllIdentityResponses : GetModelIdentity(resp)
    \/ \E err \in DbErrors : UpsertAiModel(err)
    \/ \E err \in DbErrors : GetContinentId(err)
    \/ \E resp \in AllCountryResponses : CountryAttempt(resp)
    \/ \E err \in DbErrors : UpsertCountry(err)

SpecRerun == InitRerun /\ [][NextRerun]_vars

\* get_color_for_value called once on each input.
InitColor ==
    /\ db = EmptyDb
    /\ pc = "idle"
    /\ run = NoRun
    /\ retry = NoRetry
    /\ raised = "none"
    /\ db_error = "none"
    /\ written = {}
    /\ db0 = EmptyDb
    /\ runs = 0
    /\ main = NoMain
    /\ api = NoApi
    /\ call \in ColorInputs

NextColor == CallGetColorForValue

SpecColor == InitColor /\ [][NextColor]_vars

\* _sanitize_city_data called once on each input.
InitCityData ==
    /\ db = EmptyDb
    /\ pc = "idle"
    /\ run = NoRun
    /\ retry = NoRetry
    /\ raised = "none"
    /\ db_error = "none"
    /\ written = {}
    /\ db0 = EmptyDb
    /\ runs = 0
    /\ main = NoMain
    /\ api = NoApi
    /\ call \in CityDataInputs

NextCityData == CallSanitizeCityData

SpecCityData == InitCityData /\ [][NextCityData]_vars

\* _sanitize_json called once on each input.
InitSanitize ==
    /\ db = EmptyDb
    /\ pc = "idle"
    /\ run = NoRun
    /\ retry = NoRetry
    /\ raised = "none"
    /\ db_error = "none"
    /\ written = {}
    /\ db0 = EmptyDb
    /\ runs = 0
    /\ main = NoMain
    /\ api = NoApi
    /\ call \in SanitizeInputs

NextSanitize == CallSanitizeJson

SpecSanitize == InitSanitize /\ [][NextSanitize]_vars

\* One call of an operation of db/operations.py, every statement free to
\* raise psycopg2.Error and fetchone free to return no row.
InitConn ==
    /\ db = EmptyDb
    /\ pc = "idle"
    /\ run = NoRun
    /\ retry = NoRetry
    /\ raised = "none"
    /\ db_error = "none"
    /\ written = {}
    /\ db0 = EmptyDb
    /\ runs = 0
    /\ main = NoMain
    /\ api = NoApi
    /\ call \in DbCalls

NextConn ==
    \/ \E ok \in BOOLEAN : ConnGet(ok)
    \/ \E ok \in BOOLEAN : ConnAutocommit(ok)
    \/ \E ok \in BOOLEAN : ConnExecute(ok)
    \/ \E ok \in BOOLEAN, row \in {"row", "none"} : ConnFetchone(ok, row)
    \/ \E ok \in BOOLEAN : ConnCommit(ok)
    \/ ConnCheckResult
    \/ \E ok \in BOOLEAN : ConnRollback(ok)
    \/ ConnClose

SpecConn == InitConn /\ [][NextConn]_vars

\* ------------------------------------------------------------- claims
ValueErrorOnly == {"anthropic", "ai21", "google"}

Attempts == Len(retry.outcomes)

LastOutcome == retry.outcomes[Attempts]

\* C1 as stated: a retry helper makes at most three attempts, and when all
\* three fail it raises ValueError.
C1_ThreeFailuresRaiseValueError ==
    /\ Attempts <= 3
    /\ (retry.status # "running" /\ Attempts = 3 /\ LastOutcome # "none")
          => (retry.status = "raised" /\ retry.raises = "ValueError")

\* C1 amended: a retry helper makes at most three attempts and never a
\* fourth; when all three fail it raises ValueError, except that in
\* Anthropic, AI21 and Google a third attempt failing with another exception
\* type raises that exception unchanged.
C1_AtMostThreeAttempts ==
    /\ Attempts <= 3
    /\ (retry.status # "running" /\ Attempts = 3 /\ LastOutcome # "none")
          => /\ retry.status = "raised"
             /\ retry.raises =
                   IF run.provider \in ValueErrorOnly /\ LastOutcome # "ValueError"
                   THEN LastOutcome
                   ELSE "ValueError"

C1_Witness ==
    /\ retry.status = "raised"
    /\ Attempts = 3
    /\ retry.raises = "ValueError"
    /\ retry.outcomes[1] = "ValueError"

\* C2 as stated: no exception leaves a retry helper before the third attempt
\* has failed, whatever its type.
C2_NoExceptionBeforeThirdFailure ==
    retry.status = "raised" => Attempts = 3

\* C2 amended: OpenAI, Groq, Mistral, Cohere and DeepSeek sleep and attempt
\* again after an exception of any type while fewer than three attempts were
\* made; Anthropic, AI21 and Google do so only after a ValueError, and any
\* other exception leaves the helper at the attempt that raised it.
C2_RetriedExceptions ==
    /\ (retry.status = "raised" /\ Attempts < 3)
          => /\ run.provider \in ValueErrorOnly
             /\ LastOutcome \notin {"none", "ValueError"}
             /\ retry.raises = LastOutcome
    /\ (retry.status = "running" /\ Attempts >= 1)
          => /\ LastOutcome # "none"
             /\ Len(retry.sleeps) = Attempts
             /\ retry.attempt = Attempts
    /\ \A i \in 1..Attempts :
          (i < Attempts \/ retry.status = "running")
             => /\ retry.outcomes[i] # "none"
                /\ run.provider \in ValueErrorOnly => retry.outcomes[i] = "ValueError"

C2_Witness ==
    /\ Attempts = 2
    /\ retry.outcomes[1] = "APIError"
    /\ run.provider = "openai"

\* C3 as stated: every sleep between two attempts lasts RETRY_DELAY (1 s),
\* whatever exception the failed attempt raised.
C3_EverySleepIsRetryDelay ==
    \A i \in 1..Len(retry.sleeps) : retry.sleeps[i] = 1

\* C3 amended: every sleep lasts RETRY_DELAY (1 s), except that Cohere and
\* DeepSeek sleep RATE_LIMIT_DELAY (10 s) after an exception that is not a
\* ValueError and whose message mentions "429" or "rate".
C3_SleepDelays ==
    /\ Len(retry.sleeps) <= Attempts
    /\ \A i \in 1..Len(retry.sleeps) :
          retry.sleeps[i] =
             IF run.provider \in {"cohere", "deepseek"}
                /\ retry.outcomes[i] = "RateLimitError"
             THEN 10
             ELSE 1

C3_Witness ==
    /\ run.provider = "deepseek"
    /\ retry.sleeps = <<10, 1>>

\* C4: a retry helper returns at the first attempt that succeeds and makes no
\* vendor call after it; it sleeps only between two attempts, so k attempts
\* come with exactly k-1 sleeps.
C4_SleepsBetweenAttempts ==
    /\ \A i \in 1..Attempts :
          retry.outcomes[i] = "none" => (i = Attempts /\ retry.status = "returned")
    /\ retry.status = "returned" => LastOutcome = "none"
    /\ retry.status \in {"returned", "raised"} => Len(retry.sleeps) = Attempts - 1
    /\ retry.status = "running" => Len(retry.sleeps) = Attempts

C4_Witness ==
    /\ retry.status = "returned"
    /\ Attempts = 3
    /\ Len(retry.sleeps) = 2

UnusableKinds ==
    {"not_json", "json_scalar", "json_array", "array_scalars", "cities_not_list",
     "no_content", "text_only", "other_tool"}

FailedCountryRun == pc = "raised" /\ run.cli = "country"

RowExists(w) ==
    CASE w[1] = "ai_models"  -> \E r \in db.ai_models : r.ai_model_id = w[2]
      [] w[1] = "continents" -> \E r \in db.continents : r.continent_id = w[2]
      [] w[1] = "countries"  -> \E r \in db.countries : r.country_id = w[2]
      [] w[1] = "cities"     -> \E r \in db.cities : r.city_id = w[2]

\* C6 as stated: when a process_country run fails at any step, the database
\* holds none of what the run wrote before the failure.
C6_FailedRunLeavesNoRows ==
    FailedCountryRun => db = db0

\* C6 amended: every upsert commits its own transaction, so when a
\* process_country run fails at a step the rows its earlier upserts committed
\* remain in the database as written; only the failing upsert is rolled back.
C6_CommittedRowsRemain ==
    FailedCountryRun =>
       /\ \A w \in written : RowExists(w)
       /\ run.country_id # NullId =>
             \E r \in db.countries :
                /\ r.country_id = run.country_id
                /\ r.name = run.country_name
                /\ r.ai_model_id = run.ai_model_id
                /\ r.population = run.info.population

C6_Witness ==
    /\ FailedCountryRun
    /\ <<"countries", run.country_id>> \in written
    /\ db.countries # db0.countries
    /\ db.ai_models # db0.ai_models

\* C7: countries and cities rows come only from objects that passed
\* CountryInfo / CityInfo validation, and when the country query fails after
\* its retries neither upsert_country nor upsert_city is called.
C7_OnlyValidatedRows ==
    /\ \A r \in db.countries : r.population > 0
    /\ \A r \in db.cities : r.name \in CityNames /\ r.population > 0
    /\ (FailedCountryRun /\ retry.query = "country" /\ retry.status = "raised")
          => /\ run.calls \cap {"upsert_country", "upsert_city"} = {}
             /\ db.countries = db0.countries
             /\ db.cities = db0.cities

C7_Witness ==
    /\ FailedCountryRun
    /\ retry.query = "country"
    /\ retry.status = "raised"
    /\ "upsert_ai_model" \in run.calls
    /\ db.countries # {}
    /\ db.cities # {}

\* C8: after a process_country run that returned, the country's row carries
\* the id of the ai_models row of the identity the run's provider reported,
\* also when the row existed before under another model.
C8_CountryRowCarriesRunModel ==
    (pc = "returned" /\ run.cli = "country") =>
       \E r \in db.countries :
          /\ r.name = run.country_name
          /\ \E m \in db.ai_models :
                /\ m.ai_model_id = r.ai_model_id
                /\ m.model_provider = run.model_identity.model_provider
                /\ m.model_name = run.model_identity.model_name

C8_Witness ==
    /\ pc = "returned"
    /\ run.cli = "country"
    /\ \E r \in db0.countries :
          /\ r.name = run.country_name
          /\ r.ai_model_id # run.ai_model_id

UniqueKeys ==
    /\ \A r, s \in db.ai_models : AiModelKey(r) = AiModelKey(s) => r = s
    /\ \A r, s \in db.continents : r.name = s.name => r = s
    /\ \A r, s \in db.countries : r.name = s.name => r = s
    /\ \A r, s \in db.cities : CityKey(r) = CityKey(s) => r = s

UpsertOk(at) == pc = at /\ db_error' = "none"

UpsertInPlace ==
    /\ UpsertOk("upsert_ai_model") =>
          \A r \in db.ai_models :
             IF AiModelKey(r) = AiModelKey(run.model_identity)
             THEN /\ run'.ai_model_id = r.ai_model_id
                  /\ Cardinality(db'.ai_models) = Cardinality(db.ai_models)
             ELSE r \in db'.ai_models
    /\ UpsertOk("upsert_continent") =>
          \A r \in db.continents :
             IF r.name = run.continent_name
             THEN /\ run'.continent_id = r.continent_id
                  /\ Cardinality(db'.continents) = Cardinality(db.continents)
                  /\ [r EXCEPT !.population = run.info.population,
                               !.ai_model_id = run.ai_model_id] \in db'.continents
             ELSE r \in db'.continents
    /\ UpsertOk("upsert_country") =>
          \A r \in db.countries :
             IF r.name = run.country_name
             THEN /\ run'.country_id = r.country_id
                  /\ Cardinality(db'.countries) = Cardinality(db.countries)
                  /\ [r EXCEPT !.population = run.info.population,
                               !.ai_model_id = run.ai_model_id,
                               !.continent_id = run.continent_id] \in db'.countries
             ELSE r \in db'.countries
    /\ UpsertOk("upsert_city") =>
          \A r \in db.cities :
             IF CityKey(r) = <<run.country_id, Head(run.cities).name>>
             THEN /\ run'.city_ids[Len(run'.city_ids)] = r.city_id
                  /\ Cardinality(db'.cities) = Cardinality(db.cities)
                  /\ [r EXCEPT !.population = Head(run.cities).population]
                        \in db'.cities
             ELSE r \in db'.cities

\* C9: no table ever holds two rows with the same unique key (ai_models:
\* provider and name; continents and countries: name; cities: country and
\* name), and an upsert of an existing key updates that row in place and
\* returns its id.
C9_UpsertKeepsKeysUnique ==
    [][UniqueKeys' /\ UpsertInPlace]_vars

C9_Witness ==
    /\ pc = "returned"
    /\ run.city_ids # <<>>
    /\ \E r \in db0.cities : r.city_id = run.city_ids[1]
    /\ Cardinality(db.cities) = Cardinality(db0.cities)
    /\ \E r \in db0.countries : r.country_id = run.country_id

UpsertPcs == {"upsert_ai_model", "upsert_continent", "upsert_country", "upsert_city"}

C16_AnthropicIdentityIsFixed ==
    (run.provider = "anthropic" /\ pc = "upsert_ai_model") =>
       run.model_identity =
          [model_provider |-> "Anthropic", model_name |-> "claude-haiku-4-5"]

\* C15 as stated: in every provider a successful get_cities_info returns at
\* most five cities, however many the vendor response lists.
C15_AtMostFiveCities ==
    (retry.query = "cities" /\ retry.status = "returned")
       => Len(run.cities) <= MAX_CITIES_RESPONSE

BatchLoaded == main.prog = "batch" /\ main.load = "none"

\* C11: the batch CLI calls process_country exactly once for every assigned
\* country, in list order, with its own provider, and goes on to the next
\* country after a failure.
C11_EveryCountryOnceInOrder ==
    main.prog = "batch" =>
       /\ Len(main.calls) <= Len(main.countries)
       /\ main.calls = SubSeq(main.countries, 1, Len(main.calls))
       /\ \A i, j \in 1..Len(main.calls) : main.calls[i] = main.calls[j] => i = j
       /\ main.pc = "call" =>
             /\ run.country_name = main.calls[Len(main.calls)]
             /\ run.provider = main.provider
             /\ Len(main.results) = Len(main.calls) - 1
       /\ (main.pc = "done" /\ ~main.dry_run) =>
             /\ main.calls = main.countries
             /\ Len(main.results) = Len(main.countries)

C11_Witness ==
    /\ main.prog = "batch"
    /\ main.pc = "done"
    /\ main.calls = <<"Belgium", "Algeria">>
    /\ main.results = <<"error", "ok">>

\* C12 as stated: not in dry-run mode, the batch CLI returns 1 if a country's
\* processing raised and 0 if every assigned country was processed without
\* error.
C12_BatchExitCode ==
    (BatchLoaded /\ ~main.dry_run /\ main.pc = "done") =>
       /\ main.outcome = "returned"
       /\ main.exit = IF \E i \in 1..Len(main.results) : main.results[i] = "error"
                      THEN 1 ELSE 0

\* C13: cli_country main returns 1 whenever process_country raised, whatever
\* the exception, returns 0 only when process_country completed, and lets no
\* exception escape.
C13_CountryMainExitCode ==
    (main.prog = "cli_country" /\ main.pc = "done") =>
       /\ main.outcome = "returned"
       /\ main.escaped = "none"
       /\ pc \in {"returned", "raised"}
       /\ pc = "raised" => main.exit = 1
       /\ main.exit = 0 => pc = "returned"
       /\ main.exit \in {0, 1}

C13_Witness ==
    /\ main.prog = "cli_country"
    /\ main.pc = "done"
    /\ main.exit = 1
    /\ raised = "ValueError"
    /\ retry.status = "raised"
    /\ Len(retry.outcomes) = 3

\* C14 as stated: with --dry-run the batch CLI never calls process_country,
\* makes no vendor call and no database write, and returns 0.
C14_DryRunReturnsZero ==
    (main.prog = "batch" /\ main.dry_run) =>
       /\ main.calls = <<>>
       /\ runs = 0
       /\ db = EmptyDb
       /\ main.outcome = "returned"
       /\ main.exit = 0

\* C14 amended: with --dry-run the batch CLI never calls process_country, so
\* it makes no vendor call and no database write; it returns 0 when the list
\* of assigned countries loads, returns 1 when loading it raises ValueError,
\* and ends with the exception when loading raises anything else.
C14_DryRunCallsNothing ==
    (main.prog = "batch" /\ main.dry_run) =>
       /\ main.pc = "done"
       /\ main.calls = <<>>
       /\ runs = 0
       /\ pc = "idle"
       /\ retry = NoRetry
       /\ db = EmptyDb
       /\ main.load = "none" => (main.outcome = "returned" /\ main.exit = 0)
       /\ main.load = "ValueError" => (main.outcome = "returned" /\ main.exit = 1)
       /\ main.load \notin {"none", "ValueError"}
             => (main.outcome = "raised" /\ main.escaped = main.load)

C14_Witness ==
    /\ main.prog = "batch"
    /\ main.dry_run
    /\ main.pc = "done"
    /\ Len(main.countries) = 2
    /\ main.exit = 0
    /\ main.outcome = "returned"

ProgramOrder ==
    {<<"idle", "get_model_identity">>, <<"idle", "raised">>,
     <<"returned", "get_model_identity">>, <<"returned", "raised">>,
     <<"raised", "get_model_identity">>,
     <<"get_model_identity", "upsert_ai_model">>, <<"get_model_identity", "raised">>,
     <<"upsert_ai_model", "get_continent_id">>, <<"upsert_ai_model", "country_query">>,
     <<"upsert_ai_model", "raised">>,
     <<"get_continent_id", "country_query">>, <<"get_continent_id", "raised">>,
     <<"country_query", "upsert_country">>, <<"country_query", "raised">>,
     <<"upsert_country", "cities_query">>, <<"upsert_country", "returned">>,
     <<"upsert_country", "raised">>,
     <<"cities_query", "upsert_city">>, <<"cities_query", "returned">>,
     <<"cities_query", "raised">>,
     <<"upsert_city", "returned">>, <<"upsert_city", "raised">>}

SequentialStep ==
    /\ pc' # pc => <<pc, pc'>> \in ProgramOrder
    /\ ~Ended => (run'.country_name = run.country_name /\ main'.calls = main.calls)
    /\ main'.calls # main.calls =>
          /\ Ended
          /\ Len(main.results) = Len(main.calls)
          /\ Len(main'.calls) = Len(main.calls) + 1
    /\ main'.results # main.results =>
          /\ pc \in {"returned", "raised"}
          /\ Len(main'.results) = Len(main.calls)
    /\ ~(db' # db /\ Len(retry'.outcomes) > Len(retry.outcomes))
    /\ Len(retry'.outcomes) <= Len(retry.outcomes) + 1
    /\ Cardinality(written') <= Cardinality(written) + 1

\* C20: execution is strictly sequential: the batch CLI starts a country only
\* after the previous country returned or raised and was recorded, and inside
\* a country every step performs one vendor call or one database transaction,
\* in program order, and finishes it before the next one begins.
C20_StrictlySequential ==
    [][SequentialStep]_vars

C20_Witness ==
    /\ main.prog = "batch"
    /\ Len(main.calls) = 2
    /\ main.results = <<"error">>
    /\ pc = "upsert_city"
    /\ <<"countries", run.country_id>> \in written

ByNameEndpoints ==
    {"get_continent_by_name_endpoint", "get_country_by_name_endpoint",
     "get_city_by_name_endpoint", "get_glossary_by_entry_name"}

ByIdEndpoints ==
    {"get_continent_by_id", "get_country_by_id", "get_city_by_id",
     "get_glossary_by_id", "get_ai_model_by_id"}

\* the rows a detail endpoint looks in, and the name and id of a row
EntityRows(endpoint) ==
    CASE endpoint \in {"get_continent_by_name_endpoint", "get_continent_by_id"} ->
             api.tables.continents
      [] endpoint \in {"get_country_by_name_endpoint", "get_country_by_id"} ->
             api.tables.countries
      [] endpoint \in {"get_city_by_name_endpoint", "get_city_by_id"} ->
             api.tables.cities
      [] endpoint \in {"get_glossary_by_entry_name", "get_glossary_by_id"} ->
             api.tables.glossary
      [] OTHER -> api.tables.ai_models

RowName(endpoint, r) ==
    CASE endpoint = "get_continent_by_name_endpoint" -> r.continent_name
      [] endpoint = "get_glossary_by_entry_name" -> r.entry
      [] OTHER -> r.name

RowId(endpoint, r) ==
    CASE endpoint = "get_continent_by_id" -> r.continent_id
      [] endpoint = "get_country_by_id" -> r.country_id
      [] endpoint = "get_city_by_id" -> r.city_id
      [] endpoint = "get_glossary_by_id" -> r.glossary_id
      [] OTHER -> r.ai_model_id

NotFoundDetail(endpoint) ==
    CASE endpoint \in {"get_continent_by_name_endpoint", "get_continent_by_id"} ->
             "Continent not found"
      [] endpoint \in {"get_country_by_name_endpoint", "get_country_by_id"} ->
             "Country not found"
      [] endpoint \in {"get_city_by_name_endpoint", "get_city_by_id"} ->
             "City not found"
      [] endpoint \in {"get_glossary_by_entry_name", "get_glossary_by_id"} ->
             "Glossary entry not found"
      [] OTHER -> "AI model not found"

SameNameIgnoringCase(a, b) == LowerName(a) = LowerName(b)

\* C17: for every stored continent, country, city or glossary entry, a by-name
\* request whose name equals the stored name except for letter case is
\* answered 200 with that stored record.
C17_ByNameReturnsStoredRecord ==
    LET resp == api.response
    IN resp.endpoint \in ByNameEndpoints =>
          \A r \in EntityRows(resp.endpoint) :
              SameNameIgnoringCase(RowName(resp.endpoint, r), resp.name) =>
                  (resp.status = 200 /\ resp.items = {r})

\* C18: every by-id and by-name detail endpoint answers 404 with detail
\* "<Entity> not found" whenever no stored record has the requested id, or no
\* stored record's name equals the requested name ignoring letter case.
C18_UnknownIdOrNameIs404 ==
    LET resp == api.response
        missing ==
            \/ /\ resp.endpoint \in ByIdEndpoints
               /\ ~\E r \in EntityRows(resp.endpoint) :
                      RowId(resp.endpoint, r) = resp.id
            \/ /\ resp.endpoint \in ByNameEndpoints
               /\ ~\E r \in EntityRows(resp.endpoint) :
                      SameNameIgnoringCase(RowName(resp.endpoint, r), resp.name)
    IN missing => (resp.status = 404 /\ resp.detail = NotFoundDetail(resp.endpoint))

\* the stored rows a list endpoint is asked for
FilteredRows(resp) ==
    LET t == api.tables
    IN CASE resp.endpoint = "list_continents" -> t.continents
         [] resp.endpoint = "list_countries" -> t.countries
         [] resp.endpoint = "list_cities" -> t.cities
         [] resp.endpoint = "list_glossary_entries" -> t.glossary
         [] resp.endpoint = "list_ai_models" -> t.ai_models
         [] resp.endpoint = "get_countries_by_continent_id_endpoint" ->
                {r \in t.countries : r.continent_id = resp.id}
         [] resp.endpoint = "get_countries_by_model_id_endpoint" ->
                {r \in t.countries : r.ai_model_id = resp.id}
         [] resp.endpoint = "get_cities_by_country_id_endpoint" ->
                {r \in t.cities : r.country_id = resp.id}
         [] resp.endpoint = "get_countries_by_continent_name_endpoint" ->
                {r \in t.countries :
                    \E c \in t.continents :
                        /\ c.continent_id = r.continent_id
                        /\ SameNameIgnoringCase(c.continent_name, resp.name)}
         [] resp.endpoint = "get_countries_by_model_name_endpoint" ->
                {r \in t.countries :
                    \E m \in t.ai_models :
                        /\ m.ai_model_id = r.ai_model_id
                        /\ SameNameIgnoringCase(m.model_provider, resp.name)}
         [] resp.endpoint = "get_cities_by_country_name_endpoint" ->
                {r \in t.cities :
                    \E c \in t.countries :
                        /\ c.country_id = r.country_id
                        /\ SameNameIgnoringCase(c.name, resp.name)}
         [] OTHER -> {}

ListEndpoints ==
    {"list_continents", "list_countries", "list_cities", "list_glossary_entries",
     "list_ai_models", "get_countries_by_continent_id_endpoint",
     "get_countries_by_model_id_endpoint", "get_cities_by_country_id_endpoint",
     "get_countries_by_continent_name_endpoint",
     "get_countries_by_model_name_endpoint", "get_cities_by_country_name_endpoint"}

\* C19: every list endpoint returns a count equal to the number of items in
\* the list it returns, and the list holds exactly the stored rows matching
\* the endpoint's filter (all rows when there is no filter).
C19_ListIsFilterAndCountIsLength ==
    LET resp == api.response
    IN resp.endpoint \in ListEndpoints =>
          /\ resp.status = 200
          /\ resp.count = Cardinality(resp.items)
          /\ resp.items = FilteredRows(resp)

\* C29: for every list of assigned countries, the empty list included, the
\* batch CLI main ends by returning 0 or 1 and never with an unhandled
\* exception.
C29_BatchMainReturnsZeroOrOne ==
    (BatchLoaded /\ main.pc = "done") =>
       /\ main.outcome = "returned"
       /\ main.escaped = "none"
       /\ main.exit \in {0, 1}

\* every reference of a stored row points at a stored row
ReferencesResolve ==
    /\ \A r \in db.countries : \E m \in db.ai_models : m.ai_model_id = r.ai_model_id
    /\ \A r \in db.countries :
          r.continent_id = NullId \/ \E c \in db.continents : c.continent_id = r.continent_id
    /\ \A r \in db.cities : \E c \in db.countries : c.country_id = r.country_id

\* C28: within one process_country run, upsert_country is called only after
\* upsert_ai_model has returned and with the id it returned, and upsert_city is
\* called only after upsert_country has returned and with the country_id it
\* returned, so no stored row references a row that is not committed.
C28_UpsertsFollowTheirParents ==
    run.cli = "country" =>
       /\ (pc = "upsert_country" \/ "upsert_country" \in run.calls) =>
             /\ "upsert_ai_model" \in run.calls
             /\ <<"ai_models", run.ai_model_id>> \in written
             /\ \E m \in db.ai_models : m.ai_model_id = run.ai_model_id
       /\ (pc = "upsert_city" \/ "upsert_city" \in run.calls) =>
             /\ "upsert_country" \in run.calls
             /\ <<"countries", run.country_id>> \in written
             /\ \E c \in db.countries :
                   c.country_id = run.country_id /\ c.ai_model_id = run.ai_model_id
       /\ \A i \in 1..Len(run.city_ids) :
             \E r \in db.cities :
                 r.city_id = run.city_ids[i] /\ r.country_id = run.country_id
       /\ ReferencesResolve

C28_Witness ==
    /\ run.cli = "country"
    /\ pc = "returned"
    /\ runs = 2
    /\ Len(run.city_ids) = 2
    /\ \E r \in db.cities : r.city_id = run.city_ids[2] /\ r.country_id = run.country_id
    /\ \E c \in db.countries :
          c.country_id = run.country_id /\ c.ai_model_id = run.ai_model_id

\* C26: without --skip-validation, every continent row the continent CLI
\* upserts has a name that is exactly one of the seven VALID_CONTINENTS.
C26_ValidatedContinentNames ==
    \A r \in db.continents : r.name \in VALID_CONTINENTS

\* C25: the pipeline never stores two country rows whose names differ only in
\* letter case, so a case-insensitive by-name lookup matches at most one
\* country row.
C25_NoCountriesDifferingInCase ==
    \A r1, r2 \in db.countries : Lower(r1.name) = Lower(r2.name) => r1 = r2

KeepsContinent ==
    \A r \in db.countries :
        r.continent_id # NullId =>
            \A r2 \in db'.countries : r2.name = r.name => r2.continent_id # NullId

\* C27: once a country row has a non-null continent_id, later process_country
\* runs for the same country name never set it back to NULL (continent rows
\* are never deleted).
C27_ContinentIdStaysSet ==
    [][KeepsContinent]_vars

C27_Witness ==
    /\ runs = 2
    /\ pc = "returned"
    /\ "upsert_country" \in run.calls
    /\ \E r \in db0.countries : r.name = run.country_name /\ r.continent_id # NullId
    /\ \E r \in db.countries :
          /\ r.name = run.country_name
          /\ r.country_id = run.country_id
          /\ r.continent_id # NullId

\* C21: for every min_val < max_val and every median_val with
\* min_val <= median_val <= max_val, get_color_for_value maps max_val to the
\* good colour and min_val to the bad colour when higher_is_better, and the
\* reverse when not.
C21_ExtremesMapToGoodAndBad ==
    (/\ call.fn = "get_color_for_value"
     /\ call.status = "returned"
     /\ call.min_val < call.max_val
     /\ call.has_median
     /\ call.min_val <= call.median_val
     /\ call.median_val <= call.max_val) =>
       /\ call.result.exc = "none"
       /\ call.value = call.max_val =>
             call.result.color = IF call.higher_is_better THEN GOOD_COLOR ELSE BAD_COLOR
       /\ call.value = call.min_val =>
             call.result.color = IF call.higher_is_better THEN BAD_COLOR ELSE GOOD_COLOR

\* an attempt of get_cities_info of a sanitizing provider on a response that
\* lists schema-valid cities in one of the two formats
ListsCities(resp) ==
    /\ run.provider \in SanitizingProviders
    /\ resp.kind \in {"object_cities", "array_cities"}
    /\ Len(resp.cities) <= MAX_CITIES_RESPONSE
    /\ AllCitiesValidate(resp.cities)
    /\ CitiesAttempt(resp)

\* C22: get_cities_info of the Cohere, AI21 and DeepSeek providers accepts
\* both a JSON object with a "cities" array and a bare top-level array of
\* city objects, and in both cases returns the cities the response lists.
C22_BothFormatsReturnListedCities ==
    [][\A resp \in AllCitiesResponses :
          ListsCities(resp) =>
             /\ retry'.status = "returned"
             /\ run'.cities = resp.cities]_vars

\* C24: after _sanitize_city_data has run, the airport_code of the city is
\* either None or a string of exactly three characters.
C24_AirportCodeNoneOrThreeChars ==
    (/\ call.fn = "_sanitize_city_data"
     /\ call.status = "returned"
     /\ call.result.has_airport_code) =>
       \/ call.result.airport_code = PyNone
       \/ /\ call.result.airport_code.type = "str"
          /\ Len(call.result.airport_code.str) = 3

\* C23: for every input that is already valid JSON, the text _sanitize_json
\* returns parses to the same value as the input.
C23_ValidJsonPassesThrough ==
    (/\ call.fn = "_sanitize_json"
     /\ call.status = "returned"
     /\ json_loads(call.content).exc = "none") =>
       json_loads(call.result) = json_loads(call.content)

\* C30: when upsert_ai_model, upsert_continent, upsert_country, upsert_city
\* or get_continent_id returns or raises, the connection it opened is
\* closed: on success, on a database error and on a missing returned id.
C30_ConnectionClosedOnEveryExit ==
    (call.fn \in DbOperations /\ call.status \in {"returned", "raised"}) =>
       call.conn # "open"

\* an upsert that committed, got no id back and raised ValueError
C30_Witness ==
    /\ call.fn \in UpsertOperations
    /\ call.status = "raised"
    /\ call.exc = "ValueError"
    /\ call.committed
    /\ call.conn = "closed"

====
